---- MODULE Spec2Model ----
(***************************************************************************)
(* mock-mcp: the tool registry with hot reload (internal/mcp/tools.go),    *)
(* the test-case matcher (internal/mcp/testcases.go, kept in               *)
(* src/internal/mcp/github_sync.go from line 361) and the tools/call       *)
(* dispatch (internal/mcp/server.go, kept in src/internal/mcp/webhook.go). *)
(*                                                                         *)
(* Remote sync is internal/mcp/github_sync.go with cmd/mock-mcp/main.go,   *)
(* the webhook trigger is internal/mcp/webhook.go.                         *)
(*                                                                         *)
(* The specifications share the variables:                                 *)
(*   Spec        registry, config document on disk, change watcher and     *)
(*               concurrent GetTool / GetAllTools readers;                 *)
(*   SpecMatch   fixture directory, registry and tools/call;               *)
(*   SpecValues  valuesMatch on pairs of argument values;                  *)
(*   SpecSync    the remote repository, the working copy and the local     *)
(*               cache under startup and on-demand Sync;                   *)
(*   SpecStartup startup and Sync for each configured URL and credentials; *)
(*   SpecCall    a tools/call step by step while the registry reloads;     *)
(*   SpecClose   the registry, the watcher and Close;                      *)
(*   SpecCopy    one fixture lookup while Sync rewrites the fixtures;      *)
(*   SpecNames   the registry under documents with nameless entries;       *)
(*   SpecSave    one tools/call stepping against one SaveTestCase;         *)
(*   SpecStream  one streaming request and the events written for it;      *)
(*   SpecServing the synced server: Sync, the config file it writes and    *)
(*               the watcher's reloads;                                    *)
(*   SpecHook    one webhook request against a synced server.              *)
(***************************************************************************)
EXTENDS Integers, Sequences, FiniteSets, TLC

VARIABLES
    \* ---- registry, config document, watcher (Spec) ----
    pc,          \* "start" before NewToolManager has run, "running" after
    file,        \* the config document at configPath
    writing,     \* an in-place rewrite in progress: the document being written, or NoDoc
    tools,       \* ToolManager.tools
    wlocked,     \* toolsMutex is held by a writer
    rlocks,      \* the readers holding toolsMutex.RLock
    events,      \* watcher.Events: the fsnotify events not yet received
    wpc,         \* the position of watchFileChanges
    wcfg,        \* loadToolsFromYAML's locals: the document as it was read
    widx,        \* loadToolsFromYAML's loop position in config.Tools
    rpc,         \* each reader's position
    rop,         \* each reader's call: "all" (GetAllTools) or a tool name (GetTool)
    robs,        \* each reader's returned value
    committed,   \* history: the registry as of the last toolsMutex.Unlock
    wlog,        \* the outcome the watcher logged for its last reload
    allNonEmpty, \* history: the document at startup and the document each change
                 \* was to leave parsed and defined at least one tool
    edits,       \* history: the number of changes made to the document
    \* ---- fixtures and tools/call (SpecMatch) ----
    testCasesDir,\* the fixture files of FixtureTool, by sequence number
    call,        \* the last tools/call: its name, its arguments and the default
                 \* index executeMockTool passed to FindMatchingTestCase
    found,       \* what FindMatchingTestCase returned for it
    response,    \* the response to it
    saving,       \* the SaveTestCase under way: its file, old and new content, step
    lidx,         \* the stepwise lookup's position: 0 before, the next sequence
                  \* number of the loop, TestCaseLimit + 1 for the default
    loaded,       \* history: what loadTestCase returned for the file being saved
    stream,       \* the streaming request: method, params, position, events sent
    copying,      \* the copyDirectory under way on the fixture directory: its
                  \* source, the destination as it was before, its step
    \* ---- valuesMatch (SpecValues) ----
    vExpected, vActual, vResult,
    \* ---- remote sync (SpecSync) ----
    env,          \* GITHUB_REPO_URL, and whether GITHUB_USERNAME and GITHUB_TOKEN are set
    gs,           \* the GitHubSync: repoURL and whether username and token are set
    mpc,          \* main's position: "start", "serving", "fatal"
    remote,       \* the remote repository's head: config document and fixtures
    repo,         \* the working copy {cacheDir}/repo: NoRepo or the tree checked out
    configDir,    \* whether the directory {cacheDir}/config exists
    cacheConfig,  \* {cacheDir}/config/tools.yaml
    cacheFixtures,\* {cacheDir}/testcases
    syncResult,   \* what the last Sync returned: "none", "ok" or "error"
    fetched,      \* how the last Sync got its working copy: clone, pull, or stale
    gitURL,       \* the URL last handed to git (clone, or remote set-url)
    logged,       \* the log lines written, as [at, text]
    streak,       \* history: the successful Syncs in a row with no change of the
                  \* remote between them (0 after a failed one, counted up to 2)
    remoteChanged,\* history: the remote changed since the last Sync returned
    \* ---- webhook (SpecHook) ----
    hsecret,      \* GITHUB_WEBHOOK_SECRET, "" when unset
    hreq,         \* the pending webhook request
    hres,         \* the HTTP status answered, 0 before
    hsyncs,       \* the number of Sync calls the handler made
    hseen         \* the parts of the request the handler has inspected

regVars == <<pc, file, writing, tools, wlocked, rlocks, events, wpc, wcfg, widx,
             rpc, rop, robs, committed, wlog, allNonEmpty, edits>>
matchVars == <<testCasesDir, call, found, response, saving, lidx, loaded, stream, copying>>
valueVars == <<vExpected, vActual, vResult>>
syncVars == <<env, gs, mpc, remote, repo, configDir, cacheConfig, cacheFixtures, syncResult, fetched,
              gitURL, logged, streak, remoteChanged>>
hookVars == <<hsecret, hreq, hres, hsyncs, hseen>>
vars == <<regVars, matchVars, valueVars, syncVars, hookVars>>

(***************************************************************************)
(* Argument values.  A value is what yaml.Unmarshal / json.Unmarshal put   *)
(* in a map[string]interface{}: a dynamic type t and the value itself.     *)
(* A number is the integer d when big is FALSE and 2^53 + d when big is    *)
(* TRUE (2^53 is the first magnitude at which float64 stops holding every  *)
(* integer; TLC's own integers are 32 bits wide, hence the offset form).   *)
(***************************************************************************)
NumTypes == {"float64", "float32", "int", "int8", "int16", "int32", "int64",
             "uint", "uint8", "uint16", "uint32", "uint64"}

Num(t, d) == [t |-> t, big |-> FALSE, d |-> d, s |-> ""]
BigNum(t, d) == [t |-> t, big |-> TRUE, d |-> d, s |-> ""]
Str(s) == [t |-> "string", big |-> FALSE, d |-> 0, s |-> s]
Bool(b) == [t |-> "bool", big |-> FALSE, d |-> IF b THEN 1 ELSE 0, s |-> ""]
Nil == [t |-> "nil", big |-> FALSE, d |-> 0, s |-> ""]
\* A nested mapping (map[string]interface{}) or sequence ([]interface{}).
MapVal(s) == [t |-> "map", big |-> FALSE, d |-> 0, s |-> s]
SliceVal(s) == [t |-> "slice", big |-> FALSE, d |-> 0, s |-> s]

IsNumeric(v) == v.t \in NumTypes

\* float64(val): exact up to 2^53; above it, to the nearest even multiple of
\* the spacing 2 (round half to even).
Float64Of(big, d) ==
    IF ~big \/ d <= 0 \/ d % 2 = 0 THEN <<big, d>>
    ELSE IF ((d - 1) \div 2) % 2 = 0 THEN <<big, d - 1>> ELSE <<big, d + 1>>

\* toFloat64 that also converts the decimal string "5".
toFloat64_ParsesStrings(v) ==
    IF v.t \in NumTypes
    THEN [ok |-> TRUE, f |-> Float64Of(v.big, v.d)]
    ELSE IF v.t = "string" /\ v.s = "5" THEN [ok |-> TRUE, f |-> <<FALSE, 5>>]
    ELSE [ok |-> FALSE, f |-> <<FALSE, 0>>]

toFloat64(v) ==
    IF v.t \in NumTypes
    THEN [ok |-> TRUE, f |-> Float64Of(v.big, v.d)]
    ELSE [ok |-> FALSE, f |-> <<FALSE, 0>>]

\* Go's == on two interface values: false when the dynamic types differ,
\* a run-time panic when they are the same uncomparable type (map, slice).
InterfaceEq(e, a) ==
    IF e.t # a.t THEN "false"
    ELSE IF e.t \in {"map", "slice"} THEN "panic"
    ELSE IF e = a THEN "true" ELSE "false"

\* valuesMatch: "true", "false", or "panic" when the comparison faults.
valuesMatch(e, a) ==
    LET ef == toFloat64(e)
        af == toFloat64(a)
    IN  IF ef.ok /\ af.ok THEN (IF ef.f = af.f THEN "true" ELSE "false")
        ELSE IF e.t = "string" /\ a.t = "string"
             THEN (IF e.s = a.s THEN "true" ELSE "false")
        ELSE IF e.t = "bool" /\ a.t = "bool"
             THEN (IF e.d = a.d THEN "true" ELSE "false")
        ELSE InterfaceEq(e, a)

(***************************************************************************)
(* matchArguments.  An argument mapping is a function from its keys to     *)
(* values; an absent (nil) mapping is the empty function.  The loop ranges *)
(* over the expected keys in Go's randomised map order and returns at the  *)
(* first key that is missing or differs, so the possible outcomes are a    *)
(* set.                                                                    *)
(***************************************************************************)
EmptyArgs == [k \in {} |-> Nil]

KeyOutcome(expected, actual, k) ==
    IF k \notin DOMAIN actual THEN "false" ELSE valuesMatch(expected[k], actual[k])

matchArguments_Exact(expected, actual) ==
    IF DOMAIN expected # DOMAIN actual THEN {"false"}
    ELSE LET outs == {KeyOutcome(expected, actual, k) : k \in DOMAIN expected}
         IN  IF outs \subseteq {"true"} THEN {"true"} ELSE outs \ {"true"}

matchArguments(expected, actual) ==
    IF DOMAIN expected = {} THEN {"true"}
    ELSE LET outs == {KeyOutcome(expected, actual, k) : k \in DOMAIN expected}
         IN  IF outs \subseteq {"true"} THEN {"true"} ELSE outs \ {"true"}

(***************************************************************************)
(* Fixture files.  testCasesDir maps a sequence number to the file          *)
(* <FixtureTool>-test-case-<n>.yaml: absent, present but unparseable        *)
(* ("bad"), or a TestCaseConfig (its input mapping and its response's       *)
(* isError flag).  No other tool has fixture files.                         *)
(***************************************************************************)
FixtureTool == "t"
OtherTool == "u"

TestCaseLimit == 100

AbsentFile == [st |-> "absent", input |-> EmptyArgs, isError |-> FALSE]
BadFile == [st |-> "bad", input |-> EmptyArgs, isError |-> FALSE]
TestCase(input, isError) == [st |-> "ok", input |-> input, isError |-> isError]

\* The file "<toolName>-test-case-<n>.yaml" of the directory.
TestCaseFile(dir, toolName, n) ==
    IF toolName = FixtureTool /\ n \in DOMAIN dir THEN dir[n] ELSE AbsentFile

NotFound == [kind |-> "notfound", seq |-> 0]
Panicked == [kind |-> "panic", seq |-> 0]
Found(n) == [kind |-> "found", seq |-> n]

\* The tail of FindMatchingTestCase: the configured default, else the error.
DefaultPhase_NoParseCheck(dir, toolName, defaultTestCase) ==
    IF defaultTestCase > 0 /\ TestCaseFile(dir, toolName, defaultTestCase).st # "absent"
    THEN {Found(defaultTestCase)}
    ELSE {NotFound}

DefaultPhase(dir, toolName, defaultTestCase) ==
    IF defaultTestCase > 0 /\ TestCaseFile(dir, toolName, defaultTestCase).st = "ok"
    THEN {Found(defaultTestCase)}
    ELSE {NotFound}

\* The loop body with the error of loadTestCase dropped: the zero TestCaseConfig
\* (empty input) is matched against the call.
LoopBody_BadMatches(dir, toolName, args, i) ==
    LET f == TestCaseFile(dir, toolName, i)
    IN  IF f.st = "absent" THEN {"skip"}
        ELSE IF f.st = "bad" THEN {"true"}
        ELSE {IF o = "false" THEN "skip" ELSE o : o \in matchArguments(f.input, args)}

\* One pass of the loop body for sequence number i: "skip" stands for
\* continue, the other outcomes end the search.
LoopBody(dir, toolName, args, i) ==
    LET f == TestCaseFile(dir, toolName, i)
    IN  IF f.st = "absent" THEN {"skip"}
        ELSE IF f.st = "bad" THEN {"skip"}
        ELSE {IF o = "false" THEN "skip" ELSE o : o \in matchArguments(f.input, args)}

Skip == [kind |-> "skip", seq |-> 0]

\* The loop over the sequence numbers lo..hi, in ascending order: the results
\* it can return with, and Skip when it can run through without returning.
\* (The range is halved rather than walked, and a range with no file in it
\* is passed over at once, so that the evaluation stays shallow; the order
\* of the iterations and what each does are the loop's.)
RECURSIVE SearchRange(_, _, _, _, _)
SearchRange(dir, toolName, args, lo, hi) ==
    IF \A i \in lo..hi : TestCaseFile(dir, toolName, i).st = "absent"
    THEN {Skip}   \* os.Stat reports IsNotExist in every iteration: continue
    ELSE IF lo = hi
    THEN {IF o = "true" THEN Found(lo) ELSE IF o = "panic" THEN Panicked ELSE Skip :
            o \in LoopBody(dir, toolName, args, lo)}
    ELSE LET mid == (lo + hi) \div 2
             first == SearchRange(dir, toolName, args, lo, mid)
         IN  (first \ {Skip})
             \cup (IF Skip \in first
                   THEN SearchRange(dir, toolName, args, mid + 1, hi)
                   ELSE {})

\* The same loop run from hi down to lo.
RECURSIVE SearchRangeDown(_, _, _, _, _)
SearchRangeDown(dir, toolName, args, lo, hi) ==
    IF \A i \in lo..hi : TestCaseFile(dir, toolName, i).st = "absent"
    THEN {Skip}   \* os.Stat reports IsNotExist in every iteration: continue
    ELSE IF lo = hi
    THEN {IF o = "true" THEN Found(lo) ELSE IF o = "panic" THEN Panicked ELSE Skip :
            o \in LoopBody(dir, toolName, args, lo)}
    ELSE LET mid == (lo + hi) \div 2
             first == SearchRangeDown(dir, toolName, args, mid + 1, hi)
         IN  (first \ {Skip})
             \cup (IF Skip \in first
                   THEN SearchRangeDown(dir, toolName, args, lo, mid)
                   ELSE {})

FindMatchingTestCase_LastWins(dir, toolName, args, defaultTestCase) ==
    LET loop == SearchRangeDown(dir, toolName, args, 1, TestCaseLimit)
    IN  (loop \ {Skip})
        \cup (IF Skip \in loop THEN DefaultPhase(dir, toolName, defaultTestCase) ELSE {})

\* The set of results FindMatchingTestCase can return (one, unless a
\* comparison can fault).
FindMatchingTestCase(dir, toolName, args, defaultTestCase) ==
    LET loop == SearchRange(dir, toolName, args, 1, TestCaseLimit)
    IN  (loop \ {Skip})
        \cup (IF Skip \in loop THEN DefaultPhase(dir, toolName, defaultTestCase) ELSE {})

(***************************************************************************)
(* The config document and the registry.  A ToolConfig / Tool is its Name  *)
(* and DefaultTestCase (Description and InputSchema are carried along       *)
(* unread).  The document on disk is absent, unreadable, malformed, or a    *)
(* parseable list of entries; a zero-length file parses to no entries.      *)
(***************************************************************************)
MaxTools == 2
MaxEvents == 1
MaxEdits == 1

ToolConfigs == {[Name |-> "a", DefaultTestCase |-> 0],
                [Name |-> "a", DefaultTestCase |-> 1],
                [Name |-> "b", DefaultTestCase |-> 0]}
Readers == {"r1"}
ReaderOps == {"all", "a"}

SeqsUpTo(S, n) == UNION {[1..k -> S] : k \in 0..n}
Docs == SeqsUpTo(ToolConfigs, MaxTools)

AbsentDoc == [st |-> "absent", entries |-> <<>>]
UnreadableDoc == [st |-> "unreadable", entries |-> <<>>]
MalformedDoc == [st |-> "malformed", entries |-> <<>>]
OkDoc(entries) == [st |-> "ok", entries |-> entries]
NoDoc == [st |-> "none", entries |-> <<>>]

EmptyRegistry == [n \in {} |-> [Name |-> "", DefaultTestCase |-> 0]]

ToolOf(tc) == [Name |-> tc.Name, DefaultTestCase |-> tc.DefaultTestCase]

\* The assignment skipped when the map already has the name.
Put_KeepFirst(reg, tool) ==
    [n \in DOMAIN reg \cup {tool.Name} |-> IF n \in DOMAIN reg THEN reg[n] ELSE tool]

\* tm.tools[name] = tool
Put(reg, tool) ==
    [n \in DOMAIN reg \cup {tool.Name} |-> IF n = tool.Name THEN tool ELSE reg[n]]

\* What the loop of loadToolsFromYAML leaves in a cleared map.
RECURSIVE LoadInto(_, _, _)
LoadInto(reg, entries, i) ==
    IF i > Len(entries) THEN reg
    ELSE LoadInto(Put(reg, ToolOf(entries[i])), entries, i + 1)

RegistryOf(entries) == LoadInto(EmptyRegistry, entries, 1)

\* The default set without its last descriptor.
DefaultEntries_NoDelay == <<[Name |-> "mock_echo", DefaultTestCase |-> 0],
                            [Name |-> "mock_calculator", DefaultTestCase |-> 0]>>

DefaultEntries == <<[Name |-> "mock_echo", DefaultTestCase |-> 0],
                    [Name |-> "mock_calculator", DefaultTestCase |-> 0],
                    [Name |-> "mock_delay", DefaultTestCase |-> 0]>>

\* registerDefaultTools: three assignments into the current map.
registerDefaultTools(reg) == LoadInto(reg, DefaultEntries, 1)

LoadFails_IgnoreMalformed(f) == f.st \in {"absent", "unreadable"}

\* os.ReadFile and yaml.Unmarshal of loadToolsFromYAML: whether they fail.
LoadFails(f) == f.st # "ok"

\* The registry NewToolManager builds from the document it finds.
StartupTools_NoFallback(f) ==
    IF f.st # "absent"
    THEN IF LoadFails(f) THEN EmptyRegistry ELSE RegistryOf(f.entries)
    ELSE registerDefaultTools(EmptyRegistry)

StartupTools(f) ==
    IF f.st # "absent"
    THEN IF LoadFails(f) THEN registerDefaultTools(EmptyRegistry)
                         ELSE RegistryOf(f.entries)
    ELSE registerDefaultTools(EmptyRegistry)

(***************************************************************************)
(* Initial states.                                                          *)
(***************************************************************************)
StartDocs == {AbsentDoc, UnreadableDoc, MalformedDoc} \cup {OkDoc(d) : d \in Docs}

Defines(f) == f.st = "ok" /\ f.entries # <<>>

NoCall == [name |-> "", args |-> EmptyArgs, defaultTestCase |-> 0]
NoResult == [kind |-> "none", seq |-> 0]
NoResponse == [kind |-> "none", code |-> 0, seq |-> 0, isError |-> FALSE]

RegInit(f) ==
    /\ pc = "start"
    /\ file = f
    /\ writing = NoDoc
    /\ tools = EmptyRegistry
    /\ wlocked = FALSE
    /\ rlocks = {}
    /\ events = <<>>
    /\ wpc = "none"
    /\ wcfg = NoDoc
    /\ widx = 0
    /\ rpc = [r \in Readers |-> "idle"]
    /\ rop = [r \in Readers |-> "all"]
    /\ robs = [r \in Readers |-> EmptyRegistry]
    /\ committed = EmptyRegistry
    /\ wlog = "none"
    /\ allNonEmpty = Defines(f)
    /\ edits = 0

NoSave == [seq |-> 0, old |-> AbsentFile, new |-> AbsentFile, st |-> "none"]

NoStream == [method |-> "", params |-> "none", pc |-> "none", out |-> <<>>]

NoCopy == [src |-> [n \in {} |-> AbsentFile], pre |-> [n \in {} |-> AbsentFile], st |-> "none"]

SaveIdle ==
    /\ stream = NoStream
    /\ copying = NoCopy
    /\ saving = NoSave
    /\ lidx = 0
    /\ loaded = {}

MatchIdle ==
    /\ testCasesDir = [n \in {} |-> AbsentFile]
    /\ call = NoCall
    /\ found = NoResult
    /\ response = NoResponse
    /\ SaveIdle

ValuesIdle ==
    /\ vExpected = Nil
    /\ vActual = Nil
    /\ vResult = "none"

NoFiles == [n \in {} |-> 0]
NoRepo == [st |-> "none", config |-> 0, fixtures |-> NoFiles]
NoCache == [exists |-> FALSE, files |-> NoFiles]
NoEnv == [repoURL |-> <<>>, cred |-> FALSE, configPath |-> <<>>, testcasesPath |-> <<>>]
NoSync == [repoURL |-> <<>>, cred |-> FALSE, repoConfigPath |-> <<>>,
           repoTestcasesPath |-> <<>>]
NoBody == [st |-> "none", commits |-> <<>>]
NoSignature == [key |-> "", of |-> NoBody]
NoReq == [method |-> "", signature |-> NoSignature, event |-> "", body |-> NoBody]

\* GITHUB_REPO_URL unset: no GitHubSync, no webhook endpoint.
SyncIdle ==
    /\ env = NoEnv
    /\ gs = NoSync
    /\ mpc = "serving"
    /\ remote = NoRepo
    /\ repo = NoRepo
    /\ configDir = FALSE
    /\ cacheConfig = 0
    /\ cacheFixtures = NoCache
    /\ syncResult = "none"
    /\ fetched = "none"
    /\ gitURL = <<>>
    /\ logged = {}
    /\ streak = 0
    /\ remoteChanged = FALSE

HookIdle ==
    /\ hsecret = ""
    /\ hreq = NoReq
    /\ hres = 0
    /\ hsyncs = 0
    /\ hseen = {}

Init == (\E f \in StartDocs : RegInit(f)) /\ MatchIdle /\ ValuesIdle /\ SyncIdle /\ HookIdle

(***************************************************************************)
(* NewToolManager: build the registry, write the example document when     *)
(* none exists (the write may fail), start the watcher (which may fail).    *)
(***************************************************************************)
\* createExampleYAML called whenever the defaults are registered.
AfterStartup_OnAnyFallback(f) ==
    IF LoadFails(f) THEN {OkDoc(DefaultEntries), f} ELSE {f}

\* The document NewToolManager leaves: createExampleYAML is called only when
\* os.Stat found no file, and its os.WriteFile can fail.
AfterStartup(f) ==
    IF f.st = "absent" THEN {OkDoc(DefaultEntries), AbsentDoc} ELSE {f}

\* NewToolManager returning the watcher's error to its caller.
StartupResult_WatcherErrorReturned(err) == IF err THEN "failed" ELSE "running"

\* What NewToolManager returns with, err being whether startFileWatcher
\* failed: the warning is logged and (tm, nil) returned either way.
StartupResult(err) == "running"

NewToolManager ==
    /\ pc = "start"
    /\ tools' = StartupTools(file)
    /\ committed' = tools'
    /\ file' \in AfterStartup(file)
    /\ \E err \in BOOLEAN :
          /\ wpc' = IF err THEN "none" ELSE "idle"
          /\ pc' = StartupResult(err)
    /\ UNCHANGED <<writing, wlocked, rlocks, events, wcfg, widx, rpc, rop, robs,
                   wlog, allNonEmpty, edits>>
    /\ UNCHANGED <<matchVars, valueVars, syncVars, hookVars>>

(***************************************************************************)
(* GetTool / GetAllTools: RLock, read, RUnlock (deferred) and return.       *)
(***************************************************************************)
CanRLock_NoLock == TRUE

\* toolsMutex.RLock() proceeds when no writer holds the mutex.
CanRLock == ~wlocked

\* What a call returns from registry reg: the whole map, or the entry of a name.
View(reg, op) ==
    IF op = "all" THEN reg
    ELSE [n \in DOMAIN reg \cap {op} |-> reg[n]]

RLock(r, op) ==
    /\ pc = "running"
    /\ rpc[r] = "idle"
    /\ CanRLock
    /\ rlocks' = rlocks \cup {r}
    /\ rpc' = [rpc EXCEPT ![r] = "rlocked"]
    /\ rop' = [rop EXCEPT ![r] = op]
    /\ UNCHANGED <<pc, file, writing, tools, wlocked, events, wpc, wcfg, widx, robs,
                   committed, wlog, allNonEmpty, edits>>
    /\ UNCHANGED <<matchVars, valueVars, syncVars, hookVars>>

Read(r) ==
    /\ rpc[r] = "rlocked"
    /\ robs' = [robs EXCEPT ![r] = View(tools, rop[r])]
    /\ rpc' = [rpc EXCEPT ![r] = "read"]
    /\ UNCHANGED <<pc, file, writing, tools, wlocked, rlocks, events, wpc, wcfg, widx,
                   rop, committed, wlog, allNonEmpty, edits>>
    /\ UNCHANGED <<matchVars, valueVars, syncVars, hookVars>>

RUnlock(r) ==
    /\ rpc[r] = "read"
    /\ rlocks' = rlocks \ {r}
    /\ rpc' = [rpc EXCEPT ![r] = "idle"]
    /\ rop' = [rop EXCEPT ![r] = "all"]
    /\ robs' = [robs EXCEPT ![r] = EmptyRegistry]
    /\ UNCHANGED <<pc, file, writing, tools, wlocked, events, wpc, wcfg, widx,
                   committed, wlog, allNonEmpty, edits>>
    /\ UNCHANGED <<matchVars, valueVars, syncVars, hookVars>>

(***************************************************************************)
(* watchFileChanges.  Receive an event; for a Write or Rename of the        *)
(* config path sleep, then loadToolsFromYAML: read and parse (WatchLoad),   *)
(* Lock and clear (WatchLock), one map assignment per entry (WatchFill),    *)
(* Unlock (WatchUnlock).                                                    *)
(***************************************************************************)
\* The filter without its comparison of the event's path.
Qualifies_AnyFile(e) == e.op \in {"Write", "Rename"}

\* The filter of watchFileChanges.
Qualifies(e) == e.op \in {"Write", "Rename"} /\ e.name = "config"

WatchReceive ==
    /\ wpc = "idle"
    /\ events # <<>>
    /\ events' = Tail(events)
    /\ wpc' = IF Qualifies(Head(events)) THEN "sleep" ELSE "idle"
    /\ UNCHANGED <<pc, file, writing, tools, wlocked, rlocks, wcfg, widx, rpc, rop, robs,
                   committed, wlog, allNonEmpty, edits>>
    /\ UNCHANGED <<matchVars, valueVars, syncVars, hookVars>>

WatchLoad ==
    /\ wpc = "sleep"
    /\ IF LoadFails(file)
       THEN wpc' = "idle" /\ wlog' = "failed" /\ wcfg' = NoDoc
       ELSE wpc' = "lock" /\ wlog' = wlog /\ wcfg' = file
    /\ UNCHANGED <<pc, file, writing, tools, wlocked, rlocks, events, widx, rpc, rop, robs,
                   committed, allNonEmpty, edits>>
    /\ UNCHANGED <<matchVars, valueVars, syncVars, hookVars>>

WatchLock ==
    /\ wpc = "lock"
    /\ ~wlocked
    /\ rlocks = {}
    /\ wlocked' = TRUE
    /\ tools' = EmptyRegistry
    /\ widx' = 1
    /\ wpc' = "fill"
    /\ UNCHANGED <<pc, file, writing, rlocks, events, wcfg, rpc, rop, robs,
                   committed, wlog, allNonEmpty, edits>>
    /\ UNCHANGED <<matchVars, valueVars, syncVars, hookVars>>

WatchFill ==
    /\ wpc = "fill"
    /\ widx <= Len(wcfg.entries)
    /\ tools' = Put(tools, ToolOf(wcfg.entries[widx]))
    /\ widx' = widx + 1
    /\ UNCHANGED <<pc, file, writing, wlocked, rlocks, events, wpc, wcfg, rpc, rop, robs,
                   committed, wlog, allNonEmpty, edits>>
    /\ UNCHANGED <<matchVars, valueVars, syncVars, hookVars>>

WatchUnlock ==
    /\ wpc = "fill"
    /\ widx > Len(wcfg.entries)
    /\ wlocked' = FALSE
    /\ committed' = tools
    /\ wcfg' = NoDoc
    /\ widx' = 0
    /\ wlog' = "reloaded"
    /\ wpc' = "idle"
    /\ UNCHANGED <<pc, file, writing, tools, rlocks, events, rpc, rop, robs,
                   allNonEmpty, edits>>
    /\ UNCHANGED <<matchVars, valueVars, syncVars, hookVars>>

(***************************************************************************)
(* The environment: changes to the config document and the fsnotify events *)
(* the watched directory delivers for them (Linux inotify: a write or       *)
(* truncation is Write; a file renamed onto a name is Create for that name; *)
(* a file renamed away is Rename; an unlink is Remove).  Events are queued  *)
(* only once the watcher has started.                                       *)
(***************************************************************************)
EditDocs == {MalformedDoc} \cup {OkDoc(d) : d \in Docs}

Event(op, name) == [op |-> op, name |-> name]

HasRoom == wpc = "none" \/ Len(events) < MaxEvents

Emit(e) == events' = IF wpc = "none" \/ pc = "closed" THEN events ELSE Append(events, e)

\* The contents a reader can find between the truncation and the last write.
Partials(target) ==
    {MalformedDoc} \cup
    (IF target.st = "ok"
     THEN {OkDoc(SubSeq(target.entries, 1, k)) : k \in 1..(Len(target.entries) - 1)}
     ELSE {})

\* An editor opens the document with O_TRUNC (or creates it) to rewrite it.
EnvTruncate(target) ==
    /\ pc = "running"
    /\ writing = NoDoc
    /\ edits < MaxEdits
    /\ HasRoom
    /\ file' = OkDoc(<<>>)
    /\ writing' = target
    /\ Emit(Event(IF file.st = "absent" THEN "Create" ELSE "Write", "config"))
    /\ allNonEmpty' = (allNonEmpty /\ Defines(target))
    /\ edits' = edits + 1
    /\ UNCHANGED <<pc, tools, wlocked, rlocks, wpc, wcfg, widx, rpc, rop, robs,
                   committed, wlog>>
    /\ UNCHANGED <<matchVars, valueVars, syncVars, hookVars>>

\* One write of the rewrite, not the last.
EnvPartial ==
    /\ writing # NoDoc
    /\ HasRoom
    /\ \E f \in Partials(writing) \ {file} : file' = f
    /\ Emit(Event("Write", "config"))
    /\ UNCHANGED <<pc, writing, tools, wlocked, rlocks, wpc, wcfg, widx, rpc, rop, robs,
                   committed, wlog, allNonEmpty, edits>>
    /\ UNCHANGED <<matchVars, valueVars, syncVars, hookVars>>

\* The last write of the rewrite.
EnvFinish ==
    /\ writing # NoDoc
    /\ HasRoom
    /\ file' = writing
    /\ writing' = NoDoc
    /\ Emit(Event("Write", "config"))
    /\ UNCHANGED <<pc, tools, wlocked, rlocks, wpc, wcfg, widx, rpc, rop, robs,
                   committed, wlog, allNonEmpty, edits>>
    /\ UNCHANGED <<matchVars, valueVars, syncVars, hookVars>>

\* The document is replaced by renaming a complete file onto it.
EnvRenameInto(target) ==
    /\ pc = "running"
    /\ writing = NoDoc
    /\ edits < MaxEdits
    /\ HasRoom
    /\ file' = target
    /\ Emit(Event("Create", "config"))
    /\ allNonEmpty' = (allNonEmpty /\ Defines(target))
    /\ edits' = edits + 1
    /\ UNCHANGED <<pc, writing, tools, wlocked, rlocks, wpc, wcfg, widx, rpc, rop, robs,
                   committed, wlog>>
    /\ UNCHANGED <<matchVars, valueVars, syncVars, hookVars>>

\* The document is renamed away (op "Rename") or unlinked (op "Remove").
EnvTakeAway(op) ==
    /\ pc = "running"
    /\ writing = NoDoc
    /\ file.st # "absent"
    /\ edits < MaxEdits
    /\ HasRoom
    /\ file' = AbsentDoc
    /\ Emit(Event(op, "config"))
    /\ allNonEmpty' = FALSE
    /\ edits' = edits + 1
    /\ UNCHANGED <<pc, writing, tools, wlocked, rlocks, wpc, wcfg, widx, rpc, rop, robs,
                   committed, wlog>>
    /\ UNCHANGED <<matchVars, valueVars, syncVars, hookVars>>

\* Another file of the watched directory is written.
EnvOtherFile ==
    /\ pc = "running"
    /\ wpc # "none"
    /\ edits < MaxEdits
    /\ HasRoom
    /\ Emit(Event("Write", "other"))
    /\ edits' = edits + 1
    /\ UNCHANGED <<pc, file, writing, tools, wlocked, rlocks, wpc, wcfg, widx, rpc, rop,
                   robs, committed, wlog, allNonEmpty>>
    /\ UNCHANGED <<matchVars, valueVars, syncVars, hookVars>>

Next ==
    \/ NewToolManager
    \/ \E r \in Readers, op \in ReaderOps : RLock(r, op)
    \/ \E r \in Readers : Read(r)
    \/ \E r \in Readers : RUnlock(r)
    \/ WatchReceive
    \/ WatchLoad
    \/ WatchLock
    \/ WatchFill
    \/ WatchUnlock
    \/ \E target \in EditDocs : EnvTruncate(target)
    \/ EnvPartial
    \/ EnvFinish
    \/ \E target \in EditDocs : EnvRenameInto(target)
    \/ \E op \in {"Rename", "Remove"} : EnvTakeAway(op)
    \/ EnvOtherFile

Spec == Init /\ [][Next]_vars

(***************************************************************************)
(* tools/call.  handleCallTool answers an unregistered name with the        *)
(* protocol error -32601; otherwise executeMockTool reads the tool's        *)
(* DefaultTestCase, searches the fixtures and returns the fixture's         *)
(* response, or an error result when the search found nothing.  A faulting  *)
(* comparison unwinds the handler ("panic").                                *)
(***************************************************************************)
MaxFiles == 2

\* The mappings the model draws use two keys: "x" carries a number or a
\* nested mapping, "y" a string or a number.  Fixture inputs are decoded from
\* YAML (5 is an int), call arguments from JSON (every number is a float64).
FixtureX == {Num("int", 5), Num("int", 7), MapVal("m")}
FixtureY == {Str("5")}
ArgX == {Num("float64", 5), MapVal("m")}
ArgY == {Str("5"), Num("float64", 5)}
MatchDefaults == {0, 1, 2, 101}
FixtureSeqs == {1, 2, 100, 101}

ArgMaps(XS, YS) ==
    {EmptyArgs}
    \cup {[k \in {"x"} |-> vx] : vx \in XS}
    \cup {[k \in {"y"} |-> vy] : vy \in YS}
    \cup {[k \in {"x", "y"} |-> IF k = "x" THEN vx ELSE vy] : vx \in XS, vy \in YS}

FixtureInputs == ArgMaps(FixtureX, FixtureY)
CallArgs == ArgMaps(ArgX, ArgY)
FixtureFiles ==
    {BadFile} \cup {TestCase(i, FALSE) : i \in FixtureInputs}
    \cup {TestCase(EmptyArgs, TRUE)}
Dirs ==
    UNION {[S -> FixtureFiles] : S \in {T \in SUBSET FixtureSeqs : Cardinality(T) <= MaxFiles}}

ToolNotFound == [kind |-> "error", code |-> -32601, seq |-> 0, isError |-> FALSE]
NoTestCaseFound == [kind |-> "result", code |-> 0, seq |-> 0, isError |-> TRUE]
HandlerPanicked == [kind |-> "panic", code |-> 0, seq |-> 0, isError |-> FALSE]

\* executeMockTool with the search's error passed on as the protocol error.
ResultOf_ErrorForNotFound(dir, name, r) ==
    IF r.kind = "panic" THEN HandlerPanicked
    ELSE IF r.kind = "notfound" THEN ToolNotFound
    ELSE [kind |-> "result", code |-> 0, seq |-> r.seq,
          isError |-> TestCaseFile(dir, name, r.seq).isError]

\* The ToolResult executeMockTool makes of FindMatchingTestCase's return.
ResultOf(dir, name, r) ==
    IF r.kind = "panic" THEN HandlerPanicked
    ELSE IF r.kind = "notfound" THEN NoTestCaseFound
    ELSE [kind |-> "result", code |-> 0, seq |-> r.seq,
          isError |-> TestCaseFile(dir, name, r.seq).isError]

\* The default index executeMockTool reads from the registry.
DefaultOf_AlwaysFirst(reg, name) == 1

DefaultOf(reg, name) ==
    IF name \in DOMAIN reg THEN reg[name].DefaultTestCase ELSE 0

\* handleCallTool on the pending request.
HandleCallTool ==
    /\ pc = "running"
    /\ response.kind = "none"
    /\ call.name # ""
    /\ IF call.name \notin DOMAIN View(tools, call.name)
       THEN /\ call' = call
            /\ found' = NoResult
            /\ response' = ToolNotFound
       ELSE LET d == DefaultOf(tools, call.name)
            IN  /\ call' = [call EXCEPT !.defaultTestCase = d]
                /\ \E r \in FindMatchingTestCase(testCasesDir, call.name, call.args, d) :
                      /\ found' = r
                      /\ response' = ResultOf(testCasesDir, call.name, r)
    /\ UNCHANGED <<testCasesDir, saving, lidx, loaded, stream, copying>>
    /\ UNCHANGED <<regVars, valueVars, syncVars, hookVars>>

\* The tools/call requests a client sends.
Requests ==
    {[name |-> FixtureTool, args |-> a, defaultTestCase |-> 0] : a \in CallArgs}
    \cup {[name |-> OtherTool, args |-> EmptyArgs, defaultTestCase |-> 0]}

CallInit(d, dir, req) ==
    /\ pc = "running"
    /\ file = OkDoc(<<[Name |-> FixtureTool, DefaultTestCase |-> d]>>)
    /\ writing = NoDoc
    /\ tools = RegistryOf(file.entries)
    /\ wlocked = FALSE
    /\ rlocks = {}
    /\ events = <<>>
    /\ wpc = "none"
    /\ wcfg = NoDoc
    /\ widx = 0
    /\ rpc = [r \in Readers |-> "idle"]
    /\ rop = [r \in Readers |-> "all"]
    /\ robs = [r \in Readers |-> EmptyRegistry]
    /\ committed = tools
    /\ wlog = "none"
    /\ allNonEmpty = TRUE
    /\ edits = 0
    /\ testCasesDir = dir
    /\ call = req
    /\ found = NoResult
    /\ response = NoResponse

MatchInit(d, dir, req) == CallInit(d, dir, req) /\ SaveIdle

InitMatch ==
    (\E d \in MatchDefaults, dir \in Dirs, req \in Requests : MatchInit(d, dir, req))
    /\ ValuesIdle /\ SyncIdle /\ HookIdle

NextMatch == HandleCallTool

SpecMatch == InitMatch /\ [][NextMatch]_vars

(***************************************************************************)
(* tools/call step by step on the live registry.  handleCallTool reads the  *)
(* registry once for its existence check (CallCheck), executeMockTool reads *)
(* it again for the default index and runs FindMatchingTestCase whatever    *)
(* the second read found (CallExecute).  Each read is one GetTool, under    *)
(* RLock; the watcher can reload between the two.  robs[r] keeps what the   *)
(* existence check saw.                                                     *)
(***************************************************************************)
CallCheck(r) ==
    /\ pc = "running"
    /\ rpc[r] = "idle"
    /\ response.kind = "none"
    /\ call.name # ""
    /\ CanRLock
    /\ LET seen == View(tools, call.name)
       IN  IF call.name \notin DOMAIN seen
           THEN /\ response' = ToolNotFound
                /\ UNCHANGED <<rpc, rop, robs>>
           ELSE /\ response' = response
                /\ rpc' = [rpc EXCEPT ![r] = "checked"]
                /\ rop' = [rop EXCEPT ![r] = call.name]
                /\ robs' = [robs EXCEPT ![r] = seen]
    /\ UNCHANGED <<pc, file, writing, tools, wlocked, rlocks, events, wpc, wcfg, widx,
                   committed, wlog, allNonEmpty, edits>>
    /\ UNCHANGED <<testCasesDir, call, found, saving, lidx, loaded, stream, copying>>
    /\ UNCHANGED <<valueVars, syncVars, hookVars>>

CallExecute(r) ==
    /\ rpc[r] = "checked"
    /\ CanRLock
    /\ LET d == DefaultOf(tools, call.name)
       IN  /\ call' = [call EXCEPT !.defaultTestCase = d]
           /\ \E res \in FindMatchingTestCase(testCasesDir, call.name, call.args, d) :
                 /\ found' = res
                 /\ response' = ResultOf(testCasesDir, call.name, res)
    /\ rpc' = [rpc EXCEPT ![r] = "done"]
    /\ UNCHANGED <<pc, file, writing, tools, wlocked, rlocks, events, wpc, wcfg, widx,
                   rop, robs, committed, wlog, allNonEmpty, edits>>
    /\ UNCHANGED <<testCasesDir, saving, lidx, loaded, stream, copying>>
    /\ UNCHANGED <<valueVars, syncVars, hookVars>>

\* The tools/call of this specification: a tool of the documents, no arguments.
LiveCall == [name |-> "a", args |-> EmptyArgs, defaultTestCase |-> 0]

InitCall ==
    /\ \E f \in StartDocs : RegInit(f)
    /\ testCasesDir = [n \in {} |-> AbsentFile]
    /\ call = LiveCall
    /\ found = NoResult
    /\ response = NoResponse
    /\ SaveIdle
    /\ ValuesIdle /\ SyncIdle /\ HookIdle

NextCall ==
    \/ NewToolManager
    \/ \E target \in EditDocs : EnvTruncate(target)
    \/ EnvFinish
    \/ WatchReceive
    \/ WatchLoad
    \/ WatchLock
    \/ WatchFill
    \/ WatchUnlock
    \/ \E r \in Readers : CallCheck(r)
    \/ \E r \in Readers : CallExecute(r)

SpecCall == InitCall /\ [][NextCall]_vars

(***************************************************************************)
(* valuesMatch on pairs of values.                                          *)
(***************************************************************************)
BigIntTypes == {"int", "int64", "uint", "uint64"}
ValueSamples ==
    {Num(t, d) : t \in NumTypes, d \in {5, 7}}
    \cup {Num(t, -5) : t \in {"int", "int64", "float64"}}
    \cup {BigNum(t, d) : t \in BigIntTypes, d \in 0..3}
    \cup {BigNum("float64", d) : d \in {0, 2}}
    \cup {Str("5"), Str("x"), Bool(TRUE), Bool(FALSE), Nil,
          MapVal("m"), MapVal("n"), SliceVal("m")}

ValuesMatchCall ==
    /\ vResult = "none"
    /\ vResult' = valuesMatch(vExpected, vActual)
    /\ UNCHANGED <<vExpected, vActual>>
    /\ UNCHANGED <<regVars, matchVars, syncVars, hookVars>>

InitValues ==
    /\ RegInit(AbsentDoc)
    /\ MatchIdle
    /\ vExpected \in ValueSamples
    /\ vActual \in ValueSamples
    /\ vResult = "none"
    /\ SyncIdle /\ HookIdle

NextValues == ValuesMatchCall

SpecValues == InitValues /\ [][NextValues]_vars

(***************************************************************************)
(* Close.  tm.watcher.Close() closes the Events channel; the watcher task   *)
(* sees it at its next receive (ok is false) and returns.  pc is "closed"   *)
(* from then on.  Events not yet received are gone with the channel.        *)
(***************************************************************************)
Close ==
    /\ pc = "running"
    /\ wpc # "none"
    /\ pc' = "closed"
    /\ events' = <<>>
    /\ UNCHANGED <<file, writing, tools, wlocked, rlocks, wpc, wcfg, widx, rpc, rop, robs,
                   committed, wlog, allNonEmpty, edits>>
    /\ UNCHANGED <<matchVars, valueVars, syncVars, hookVars>>

\* The receive of watchFileChanges on the closed channel: return.
WatchStop ==
    /\ pc = "closed"
    /\ wpc = "idle"
    /\ wpc' = "stopped"
    /\ UNCHANGED <<pc, file, writing, tools, wlocked, rlocks, events, wcfg, widx, rpc, rop,
                   robs, committed, wlog, allNonEmpty, edits>>
    /\ UNCHANGED <<matchVars, valueVars, syncVars, hookVars>>

NextClose ==
    \/ NewToolManager
    \/ \E target \in EditDocs : EnvTruncate(target)
    \/ EnvFinish
    \/ WatchReceive
    \/ WatchLoad
    \/ WatchLock
    \/ WatchFill
    \/ WatchUnlock
    \/ Close
    \/ WatchStop

SpecClose == Init /\ [][NextClose]_vars

(***************************************************************************)
(* Documents with an entry that gives no name: yaml.Unmarshal leaves the    *)
(* entry's Name the empty string.                                          *)
(***************************************************************************)
NamelessEntry == [Name |-> "", DefaultTestCase |-> 0]
NamedOrNot == {[Name |-> "a", DefaultTestCase |-> 0], NamelessEntry}
NamelessDocs == {OkDoc(d) : d \in SeqsUpTo(NamedOrNot, MaxTools)}

InitNames ==
    /\ \E f \in NamelessDocs : RegInit(f)
    /\ MatchIdle /\ ValuesIdle /\ SyncIdle /\ HookIdle

NextNames ==
    \/ NewToolManager
    \/ WatchReceive
    \/ WatchLoad
    \/ WatchLock
    \/ WatchFill
    \/ WatchUnlock
    \/ \E target \in NamelessDocs : EnvTruncate(target)
    \/ EnvFinish

SpecNames == InitNames /\ [][NextNames]_vars

(***************************************************************************)
(* tools/call against HandleSaveTestCase.  The TestCaseManager holds no     *)
(* lock: the lookup's Stat and ReadFile of one file and the save's open     *)
(* and write are system calls that interleave.  os.WriteFile opens with     *)
(* O_CREATE|O_TRUNC, then writes the marshalled fixture in one write.       *)
(***************************************************************************)
\* What loadTestCase returns for a zero-length file: yaml.Unmarshal of no
\* data is no error and leaves the zero TestCaseConfig.
EmptyFile == TestCase(EmptyArgs, FALSE)

\* The fixtures saved and found on disk: none is the zero TestCaseConfig.
SavedCases ==
    {TestCase([k \in {"x"} |-> Num("int", 5)], TRUE),
     TestCase([k \in {"x"} |-> Num("int", 7)], FALSE)}
SavedSeqs == {1, 2}
SavedDirs == UNION {[S -> SavedCases] : S \in SUBSET SavedSeqs}
SaveCalls ==
    {[name |-> FixtureTool, args |-> a, defaultTestCase |-> 0] :
        a \in {[k \in {"x"} |-> Num("float64", 5)], [k \in {"x"} |-> Num("float64", 9)]}}

\* The content of the file once os.WriteFile has opened it.
SaveOpen(f) == EmptyFile

\* SaveTestCase, os.WriteFile's OpenFile: the file is created or truncated.
SaveTruncate ==
    /\ saving.st = "pending"
    /\ testCasesDir' = [n \in DOMAIN testCasesDir \cup {saving.seq} |->
                           IF n = saving.seq THEN SaveOpen(saving) ELSE testCasesDir[n]]
    /\ saving' = [saving EXCEPT !.st = "open"]
    /\ UNCHANGED <<call, found, response, lidx, loaded, stream, copying>>
    /\ UNCHANGED <<regVars, valueVars, syncVars, hookVars>>

\* SaveTestCase, os.WriteFile's Write and Close.
SaveWrite ==
    /\ saving.st = "open"
    /\ testCasesDir' = [testCasesDir EXCEPT ![saving.seq] = saving.new]
    /\ saving' = [saving EXCEPT !.st = "done"]
    /\ UNCHANGED <<call, found, response, lidx, loaded, stream, copying>>
    /\ UNCHANGED <<regVars, valueVars, syncVars, hookVars>>

\* What loadTestCase returns for sequence number n, when n is the file the
\* save is about.
Loads(n) ==
    IF n = saving.seq /\ TestCaseFile(testCasesDir, call.name, n).st # "absent"
    THEN {TestCaseFile(testCasesDir, call.name, n)}
    ELSE {}

\* handleCallTool up to the call of FindMatchingTestCase.
LookupStart ==
    /\ pc = "running"
    /\ response.kind = "none"
    /\ call.name \in DOMAIN tools
    /\ lidx = 0
    /\ call' = [call EXCEPT !.defaultTestCase = DefaultOf(tools, call.name)]
    /\ lidx' = 1
    /\ UNCHANGED <<testCasesDir, found, response, saving, loaded, stream, copying>>
    /\ UNCHANGED <<regVars, valueVars, syncVars, hookVars>>

\* FindMatchingTestCase's loop from lidx to the next file os.Stat finds, and
\* the loop body on that file.
LookupStep ==
    /\ lidx \in 1..TestCaseLimit
    /\ LET present == {i \in lidx..TestCaseLimit :
                          TestCaseFile(testCasesDir, call.name, i).st # "absent"}
       IN  IF present = {}
           THEN /\ lidx' = TestCaseLimit + 1
                /\ UNCHANGED <<found, response, loaded>>
           ELSE LET j == CHOOSE i \in present : \A k \in present : i <= k
                IN  /\ loaded' = loaded \cup Loads(j)
                    /\ \E o \in LoopBody(testCasesDir, call.name, call.args, j) :
                          IF o = "skip"
                          THEN /\ lidx' = j + 1
                               /\ UNCHANGED <<found, response>>
                          ELSE /\ lidx' = 0
                               /\ found' = (IF o = "true" THEN Found(j) ELSE Panicked)
                               /\ response' = ResultOf(testCasesDir, call.name, found')
    /\ UNCHANGED <<testCasesDir, call, saving, stream, copying>>
    /\ UNCHANGED <<regVars, valueVars, syncVars, hookVars>>

\* FindMatchingTestCase after the loop.
LookupDefault ==
    /\ lidx = TestCaseLimit + 1
    /\ loaded' = loaded \cup (IF call.defaultTestCase > 0 THEN Loads(call.defaultTestCase) ELSE {})
    /\ \E r \in DefaultPhase(testCasesDir, call.name, call.defaultTestCase) :
          /\ found' = r
          /\ response' = ResultOf(testCasesDir, call.name, r)
    /\ lidx' = 0
    /\ UNCHANGED <<testCasesDir, call, saving, stream, copying>>
    /\ UNCHANGED <<regVars, valueVars, syncVars, hookVars>>

InitSave ==
    /\ \E d \in {0, 1, 2}, dir \in SavedDirs, req \in SaveCalls : CallInit(d, dir, req)
    /\ \E n \in SavedSeqs, new \in SavedCases :
          saving = [seq |-> n, old |-> TestCaseFile(testCasesDir, FixtureTool, n),
                    new |-> new, st |-> "pending"]
    /\ lidx = 0
    /\ loaded = {}
    /\ stream = NoStream
    /\ copying = NoCopy
    /\ ValuesIdle /\ SyncIdle /\ HookIdle

NextSave == SaveTruncate \/ SaveWrite \/ LookupStart \/ LookupStep \/ LookupDefault

SpecSave == InitSave /\ [][NextSave]_vars

(***************************************************************************)
(* copyDirectory on the fixture directory, step by step, while a lookup     *)
(* runs.  With the GitHub source the TestCaseManager reads the directory    *)
(* that Sync rewrites: os.RemoveAll and os.MkdirAll leave it empty          *)
(* (CopyRemove), then the files of the working copy arrive one at a time,   *)
(* in the order cp finds them (CopyFile).                                   *)
(***************************************************************************)
CopyRemove ==
    /\ copying.st = "pending"
    /\ testCasesDir' = [n \in {} |-> AbsentFile]
    /\ copying' = [copying EXCEPT !.st = "filling"]
    /\ UNCHANGED <<call, found, response, saving, lidx, loaded, stream>>
    /\ UNCHANGED <<regVars, valueVars, syncVars, hookVars>>

CopyFile ==
    /\ copying.st = "filling"
    /\ \E n \in DOMAIN copying.src \ DOMAIN testCasesDir :
          /\ testCasesDir' = [m \in DOMAIN testCasesDir \cup {n} |-> copying.src[m]]
          /\ copying' = [copying EXCEPT !.st = IF DOMAIN testCasesDir' = DOMAIN copying.src
                                               THEN "done" ELSE "filling"]
    /\ UNCHANGED <<call, found, response, saving, lidx, loaded, stream>>
    /\ UNCHANGED <<regVars, valueVars, syncVars, hookVars>>

\* The fixture directory before the Sync, the fixtures of the working copy
\* (Sync copies only a directory that exists), and the call.
InitCopy ==
    /\ \E d \in {0, 1, 2}, pre \in SavedDirs, src \in SavedDirs \ {[n \in {} |-> AbsentFile]},
          req \in SaveCalls :
          /\ CallInit(d, pre, req)
          /\ copying = [src |-> src, pre |-> pre, st |-> "pending"]
    /\ saving = NoSave
    /\ lidx = 0
    /\ loaded = {}
    /\ stream = NoStream
    /\ ValuesIdle /\ SyncIdle /\ HookIdle

NextCopy == CopyRemove \/ CopyFile \/ LookupStart \/ LookupStep \/ LookupDefault

SpecCopy == InitCopy /\ [][NextCopy]_vars

(***************************************************************************)
(* handleStreamingRequest.  The handler runs processRequest (for a          *)
(* tools/call with decodable params: handleCallTool, which can fault),      *)
(* writes and flushes the response event, and for a tools/call whose params *)
(* decode as a ToolCall goes on to streamToolCallProgress.  A fault unwinds *)
(* the handler: net/http recovers it and drops the connection.              *)
(***************************************************************************)
ProgressCount == 3

Progress(i) == [type |-> "progress", n |-> i, of |-> ProgressCount]
ResponseEvent == [type |-> "response", n |-> 0, of |-> 0]

\* Whether json.Unmarshal(req.Params, &toolCall) succeeds.
Decodes(s) == s.params = "ok"

\* The position after the response event: lines 306-311.
AfterResponse(s) ==
    IF s.method = "tools/call" /\ Decodes(s) THEN "progress" ELSE "done"

\* Lines 300-304: processRequest has returned (or faulted), the response is
\* marshalled, written and flushed.
StreamResponse ==
    /\ stream.pc = "start"
    /\ (stream.method = "tools/call" /\ Decodes(stream)) => response.kind # "none"
    /\ stream' = IF response.kind = "panic"
                 THEN [stream EXCEPT !.pc = "aborted"]
                 ELSE [stream EXCEPT !.pc = AfterResponse(stream),
                                     !.out = <<ResponseEvent>>]
    /\ UNCHANGED <<testCasesDir, call, found, response, saving, lidx, loaded, copying>>
    /\ UNCHANGED <<regVars, valueVars, syncVars, hookVars>>

\* One pass of the loop of streamToolCallProgress: sleep, write, flush.
StreamProgress ==
    /\ stream.pc = "progress"
    /\ LET i == Len(stream.out)
       IN  stream' = [stream EXCEPT !.out = Append(stream.out, Progress(i)),
                                    !.pc = IF i + 1 > ProgressCount THEN "done"
                                           ELSE "progress"]
    /\ UNCHANGED <<testCasesDir, call, found, response, saving, lidx, loaded, copying>>
    /\ UNCHANGED <<regVars, valueVars, syncVars, hookVars>>

\* The fixture directories and the streaming requests: tools/call for the
\* registered and for an unknown tool, with params that decode or do not,
\* and two other methods.
StreamDirs ==
    {[n \in {} |-> AbsentFile]}
    \cup {[n \in {1} |-> f] : f \in {TestCase([k \in {"x"} |-> MapVal("m")], FALSE),
                                    TestCase([k \in {"x"} |-> Num("int", 5)], TRUE)}}
StreamCalls ==
    {[name |-> n, args |-> a, defaultTestCase |-> 0] :
        n \in {FixtureTool, OtherTool},
        a \in {[k \in {"x"} |-> MapVal("m")], [k \in {"x"} |-> Num("float64", 5)]}}
StreamRequests ==
    {<<[method |-> "tools/call", params |-> "ok", pc |-> "start", out |-> <<>>], c>> :
        c \in StreamCalls}
    \cup {<<[method |-> m, params |-> p, pc |-> "start", out |-> <<>>], NoCall>> :
            m \in {"tools/call", "tools/list", "initialize"}, p \in {"bad", "none"}}
    \cup {<<[method |-> "initialize", params |-> "ok", pc |-> "start", out |-> <<>>], NoCall>>}

InitStream ==
    /\ \E d \in {0, 1}, dir \in StreamDirs, rq \in StreamRequests :
          /\ CallInit(d, dir, rq[2])
          /\ stream = rq[1]
    /\ copying = NoCopy
    /\ saving = NoSave
    /\ lidx = 0
    /\ loaded = {}
    /\ ValuesIdle /\ SyncIdle /\ HookIdle

NextStream == HandleCallTool \/ StreamResponse \/ StreamProgress

SpecStream == InitStream /\ [][NextStream]_vars

(***************************************************************************)
(* Remote sync.  A URL is the sequence of its segments, with "://" and "@"  *)
(* segments of their own, so that the string operations of the source act   *)
(* on it as they act on the text.  A tree is a config document (0 when the  *)
(* tree has none, else its version) and the fixture files of the fixtures   *)
(* sub-path by name (git keeps no empty directory: the sub-path exists in a *)
(* checkout exactly when it holds a file).                                  *)
(***************************************************************************)
\* strings.Index, 0 standing for -1
IndexOf(str, t) ==
    IF \E i \in 1..Len(str) : str[i] = t
    THEN CHOOSE i \in 1..Len(str) : str[i] = t /\ \A j \in 1..(i - 1) : str[j] # t
    ELSE 0
Contains(str, t) == IndexOf(str, t) # 0
From(str, n) == SubSeq(str, n, Len(str))
HasPrefix(str, pre) == Len(str) >= Len(pre) /\ SubSeq(str, 1, Len(pre)) = pre
HasSuffix(str, suf) ==
    Len(str) >= Len(suf) /\ SubSeq(str, Len(str) - Len(suf) + 1, Len(str)) = suf
TrimPrefix(str, pre) == IF HasPrefix(str, pre) THEN From(str, Len(pre) + 1) ELSE str
TrimSuffix(str, suf) ==
    IF HasSuffix(str, suf) THEN SubSeq(str, 1, Len(str) - Len(suf)) ELSE str
ReplaceAll(str, olds, new) == [i \in 1..Len(str) |-> IF str[i] \in olds THEN new ELSE str[i]]

\* The values of GITHUB_REPO_URL: the plain URL, the short forms, URLs that
\* carry credentials, one whose password holds an "@" and one whose path does.
Plain == <<"github.com", "/", "o", "/", "r">>
RepoURLs ==
    {<<"https", "://">> \o Plain,
     <<"https", "://">> \o Plain \o <<".git">>,
     <<"o", "/", "r">>,
     Plain,
     <<"https", "://", "user", ":", "tok", "@">> \o Plain \o <<".git">>,
     <<"user", ":", "tok", "@">> \o Plain,
     <<"https", "://", "user", ":", "p", "@", "ss", "@">> \o Plain,
     <<"https", "://">> \o Plain \o <<"@", "x">>}

\* The segments that are a secret: the token of a URL, and GITHUB_TOKEN.
Secrets == {"tok", "envtok"}

\* The URL without credentials, for the log.
sanitizeURLForLogging(url) ==
    LET p == IndexOf(url, "://")
    IN  IF p = 0 THEN url
        ELSE LET afterProtocol == From(url, p + 1)
                 a == IndexOf(afterProtocol, "@")
             IN  IF a = 0 THEN url
                 ELSE SubSeq(url, 1, p) \o <<"***", "@">> \o From(afterProtocol, a + 1)

\* The URL handed to git: the repository URL with username and token put in.
getAuthenticatedURL(g) ==
    IF ~g.cred THEN g.repoURL
    ELSE LET p == IndexOf(g.repoURL, "://")
         IN  IF p = 0 THEN g.repoURL
             ELSE LET afterProtocol == From(g.repoURL, p + 1)
                      a == IndexOf(afterProtocol, "@")
                      bare == IF a = 0 THEN afterProtocol ELSE From(afterProtocol, a + 1)
                  IN  SubSeq(g.repoURL, 1, p) \o <<"envuser", ":", "envtok", "@">> \o bare

normalizeRepoURL(url) ==
    LET u1 == TrimSuffix(url, <<".git">>)
        u2 == IF HasPrefix(u1, <<"http", "://">>) \/ HasPrefix(u1, <<"https", "://">>)
              THEN u1
              ELSE IF Contains(u1, "/") /\ ~Contains(u1, "@")
              THEN <<"https", "://", "github.com", "/">> \o TrimPrefix(u1, <<"github.com", "/">>)
              ELSE <<"https", "://">> \o u1
    IN  IF HasSuffix(u2, <<".git">>) THEN u2 ELSE u2 \o <<".git">>

sanitizeRepoName(url) ==
    LET u1 == TrimPrefix(url, <<"https", "://">>)
        u2 == TrimPrefix(u1, <<"http", "://">>)
        u3 == TrimSuffix(u2, <<".git">>)
    IN  ReplaceAll(u3, {"/", ":", "@"}, "_")

\* cacheDir as SyncFromGitHub builds it, and the two paths under it.
CacheDirOf(url) == <<"tmp", "/", "mock-mcp-github-sync", "/">> \o sanitizeRepoName(url)
\* The fields configDir and testcasesDir NewGitHubSync derives from cacheDir.
ConfigDirOf(g) == CacheDirOf(g.repoURL) \o <<"/", "config">>
TestcasesDirOf(g) == CacheDirOf(g.repoURL) \o <<"/", "testcases">>

GetConfigPath(g) == ConfigDirOf(g) \o <<"/", "tools.yaml">>
GetTestcasesDir(g) == TestcasesDirOf(g)

\* Sync's destination placed by the sub-path the document has in the remote.
DestConfigFile_FollowsRemote(g) == CacheDirOf(g.repoURL) \o <<"/">> \o g.repoConfigPath

\* Sync's destConfigFile and the destination of its copyDirectory.
DestConfigFile(g) == ConfigDirOf(g) \o <<"/", "tools.yaml">>
DestTestcasesDir(g) == TestcasesDirOf(g)

NewGitHubSync(repoURL, repoConfigPath, repoTestcasesPath, cred) ==
    [repoURL |-> repoURL, cred |-> cred,
     repoConfigPath |-> IF repoConfigPath = <<>> THEN <<"config", "/", "tools.yaml">>
                        ELSE repoConfigPath,
     repoTestcasesPath |-> IF repoTestcasesPath = <<>> THEN <<"testcases">>
                           ELSE repoTestcasesPath]

Line(at, text) == [at |-> at, text |-> text]

\* GITHUB_TOOLS_CONFIG_PATH and GITHUB_TESTCASES_PATH: unset, or a config
\* document at the repository root with a fixtures path written with its slash.
PathSettings == {<<<<>>, <<>>>>, <<<<"tools.yaml">>, <<"testcases", "/">>>>}

\* The contents a file takes: two for the config document and for fixture
\* f1, one for fixture f2.
FileVersions == {1, 2}
FixtureNames == {"f1", "f2"}
FixtureVersions(n) == IF n = "f1" THEN FileVersions ELSE {1}
FixtureSets ==
    UNION {{f \in [S -> FileVersions] : \A n \in S : f[n] \in FixtureVersions(n)} :
             S \in SUBSET FixtureNames}
Tree(c, f) == [st |-> "tree", config |-> c, fixtures |-> f]
Remotes == {Tree(c, f) : c \in {0} \cup FileVersions, f \in FixtureSets}

\* os.WriteFile cut short.
PartialConfig == -1

Restrict(f, S) == [n \in S |-> f[n]]

\* copyDirectory that leaves an existing destination removed and not copied.
copyDirectory_NoCopyIfExists(src, dest) ==
    IF dest.exists THEN {[cache |-> NoCache, ok |-> TRUE]}
    ELSE {[cache |-> [exists |-> TRUE, files |-> src], ok |-> TRUE]}

\* copyDirectory: the destination is removed and made anew, then filled by
\* cp -r, or file by file when cp fails; when that fails too the destination
\* holds the files copied so far.
copyDirectory(src, dest) ==
    {[cache |-> [exists |-> TRUE, files |-> src], ok |-> TRUE]}
    \cup {[cache |-> [exists |-> TRUE, files |-> Restrict(src, S)], ok |-> FALSE] :
            S \in (SUBSET DOMAIN src) \ {DOMAIN src}}

\* The outcome of a Sync: the working copy and the caches it leaves, what it
\* returns ("ok" or the step that failed), and the lines it logs.
Outcome(r, cc, cf, res, how, url, lines) ==
    [repo |-> r, cacheConfig |-> cc, cacheFixtures |-> cf, result |-> res,
     fetched |-> how, gitURL |-> url, lines |-> lines]

\* The skip taken as a removal of the cached document.
SkipConfig_Clears(cc) == {[v |-> 0, ok |-> TRUE, lines |-> {}]}

\* Lines 101-103 of Sync: os.Stat found no config document in the working
\* copy; a line is logged and the cache cc is not touched.
SkipConfig(cc) == {[v |-> cc, ok |-> TRUE, lines |-> {}]}

\* Lines 84-116 of Sync on the working copy wc: the config file, then the
\* fixtures directory.
CopyFromRepo(g, wc, how, url, lines) ==
    LET configs ==
            IF wc.config = 0 THEN SkipConfig(cacheConfig)
            ELSE {[v |-> wc.config, ok |-> TRUE,
                   lines |-> {Line("Sync:100", DestConfigFile(g))}],
                  [v |-> cacheConfig, ok |-> FALSE, lines |-> {}],
                  [v |-> PartialConfig, ok |-> FALSE, lines |-> {}]}
        fixtures ==
            IF DOMAIN wc.fixtures = {} THEN {[cache |-> cacheFixtures, ok |-> TRUE]}
            ELSE copyDirectory(wc.fixtures, cacheFixtures)
    IN  {Outcome(wc, c.v, cacheFixtures, "config", how, url, lines) :
            c \in {x \in configs : ~x.ok}}
        \cup
        {Outcome(wc, c.v, f.cache, IF f.ok THEN "ok" ELSE "copy", how, url,
                 lines \cup c.lines
                 \cup (IF f.ok /\ DOMAIN wc.fixtures # {}
                       THEN {Line("Sync:111", DestTestcasesDir(g))} ELSE {})) :
            c \in {x \in configs : x.ok}, f \in fixtures}

\* Sync with the failure of git pull returned as an error.
AfterPullFailed_Fatal(g, url, lines) ==
    {Outcome(repo, cacheConfig, cacheFixtures, "pull", "stale", url, lines)}

\* Lines 74-76 of Sync: git pull failed, the working copy is as it was.
AfterPullFailed(g, url, lines) == CopyFromRepo(g, repo, "stale", url, lines)

\* git clone's failure swallowed: Sync goes on and returns nil.
AfterCloneFailed_Swallowed(g, url, lines) ==
    {Outcome(NoRepo, cacheConfig, cacheFixtures, "ok", "none", url, lines)}

\* Lines 66-68 of Sync: git clone failed, Sync returns the error at once.
AfterCloneFailed(g, url, lines) ==
    {Outcome(NoRepo, cacheConfig, cacheFixtures, "clone", "none", url, lines)}

\* The outcomes of gs.Sync() in the current state: git clone or git pull may
\* fail, as may each copy.
Sync(g) ==
    IF g.repoURL = <<>>
    THEN {Outcome(repo, cacheConfig, cacheFixtures, "url", "none", gitURL, {})}
    ELSE IF repo.st = "none"
    THEN LET lines == {Line("Sync:65", sanitizeURLForLogging(g.repoURL))}
             url == getAuthenticatedURL(g)
         IN  AfterCloneFailed(g, url, lines)
             \cup CopyFromRepo(g, remote, "clone", url, lines)
    ELSE LET lines == {Line("Sync:73", sanitizeURLForLogging(g.repoURL))}
             url == IF g.cred THEN getAuthenticatedURL(g) ELSE gitURL
         IN  CopyFromRepo(g, remote, "pull", url, lines)
             \cup AfterPullFailed(g, url, lines)

\* Whether the Sync got to line 88, os.MkdirAll(gs.configDir): it had a
\* working copy and the working copy holds the config document.
ReachedConfigCopy(o) == o.repo.config # 0 /\ o.result \in {"ok", "config", "copy"}

\* Whether the Sync got to line 97, os.WriteFile(destConfigFile): the file is
\* written anew, also when its content is what it was.
WroteConfig(o) ==
    /\ o.repo.config # 0
    /\ o.result \in {"ok", "copy"} \/ (o.result = "config" /\ o.cacheConfig = PartialConfig)

\* The effect of an outcome on the sync state, all but the log.
Apply(o) ==
    /\ repo' = o.repo
    /\ configDir' = (configDir \/ ReachedConfigCopy(o))
    /\ cacheConfig' = o.cacheConfig
    /\ cacheFixtures' = o.cacheFixtures
    /\ syncResult' = o.result
    /\ fetched' = o.fetched
    /\ gitURL' = o.gitURL
    /\ streak' = IF o.result # "ok" THEN 0
                 ELSE IF syncResult = "ok" /\ ~remoteChanged /\ streak >= 1 THEN 2
                 ELSE 1
    /\ remoteChanged' = FALSE

\* main with GITHUB_REPO_URL set: SyncFromGitHub, fatal when the Sync fails.
Main ==
    /\ mpc = "start"
    /\ LET g == NewGitHubSync(normalizeRepoURL(env.repoURL), env.configPath,
                              env.testcasesPath, env.cred)
       IN  \E o \in Sync(g) :
              /\ Apply(o)
              /\ gs' = IF o.result = "ok" THEN g ELSE NoSync
              /\ mpc' = IF o.result = "ok" THEN "serving" ELSE "fatal"
              /\ logged' = logged \cup {Line("main:20", env.repoURL)} \cup o.lines
                           \cup (IF o.result = "ok"
                                 THEN {Line("main:28", GetConfigPath(g)),
                                       Line("main:29", GetTestcasesDir(g))}
                                 ELSE {})
    /\ UNCHANGED <<env, remote>>
    /\ UNCHANGED <<regVars, matchVars, valueVars, hookVars>>

\* A Sync of the running server.
SyncOnDemand ==
    /\ mpc = "serving"
    /\ gs # NoSync
    /\ \E o \in Sync(gs) :
          /\ Apply(o)
          /\ logged' = logged \cup o.lines
    /\ UNCHANGED <<env, gs, mpc, remote>>
    /\ UNCHANGED <<regVars, matchVars, valueVars, hookVars>>

\* A push to the remote repository.
RemotePush ==
    /\ mpc # "fatal"
    /\ remote' \in Remotes \ {remote}
    /\ remoteChanged' = TRUE
    /\ UNCHANGED <<env, gs, mpc, repo, configDir, cacheConfig, cacheFixtures, syncResult,
                   fetched, gitURL, logged, streak>>
    /\ UNCHANGED <<regVars, matchVars, valueVars, hookVars>>

\* The cache directory as a run finds it: fresh, or left by an earlier run
\* whose working copy is gone.
FreshCache == [configDir |-> FALSE, cacheConfig |-> 0, cacheFixtures |-> NoCache]
LeftCaches ==
    {FreshCache,
     [configDir |-> TRUE, cacheConfig |-> 2, cacheFixtures |-> NoCache],
     [configDir |-> TRUE, cacheConfig |-> 2,
      cacheFixtures |-> [exists |-> TRUE, files |-> [n \in {"f1"} |-> 2]]]}

SyncStartOn(url, cred, tree, left) ==
    /\ env \in {[repoURL |-> url, cred |-> cred, configPath |-> ps[1],
                  testcasesPath |-> ps[2]] : ps \in PathSettings}
    /\ gs = NoSync
    /\ mpc = "start"
    /\ remote = tree
    /\ repo = NoRepo
    /\ configDir = left.configDir
    /\ cacheConfig = left.cacheConfig
    /\ cacheFixtures = left.cacheFixtures
    /\ syncResult = "none"
    /\ fetched = "none"
    /\ gitURL = <<>>
    /\ logged = {}
    /\ streak = 0
    /\ remoteChanged = FALSE

SyncStart(url, cred, tree) == SyncStartOn(url, cred, tree, FreshCache)

\* Startup and Syncs against a remote that changes, for one configuration.
InitSync ==
    /\ RegInit(AbsentDoc)
    /\ MatchIdle
    /\ ValuesIdle
    /\ HookIdle
    /\ \E tree \in Remotes : SyncStart(<<"o", "/", "r">>, TRUE, tree)
    /\ env.configPath = <<>>

NextSync == Main \/ SyncOnDemand \/ RemotePush

SpecSync == InitSync /\ [][NextSync]_vars

\* Startup and Syncs for every configuration, against a remote that stays.
InitStartup ==
    /\ RegInit(AbsentDoc)
    /\ MatchIdle
    /\ ValuesIdle
    /\ HookIdle
    /\ \E url \in RepoURLs, cred \in BOOLEAN, tree \in Remotes, left \in LeftCaches :
          SyncStartOn(url, cred, tree, left)
    /\ env.configPath = <<>>

NextStartup == Main \/ SyncOnDemand

SpecStartup == InitStartup /\ [][NextStartup]_vars

(***************************************************************************)
(* The synced server.  main hands GetConfigPath() to NewToolManager, so the *)
(* config document the registry loads and watches is the file Sync writes:  *)
(* file is kept as the document of cacheConfig.  Sync's os.WriteFile is an  *)
(* in-place rewrite: the truncation here, the write in EnvFinish.           *)
(***************************************************************************)
\* The example document createExampleYAML writes, as a content of the file.
ExampleConfig == 3

\* The document a content of the config file is.
ConfigDoc(v) ==
    CASE v = 1 -> OkDoc(<<[Name |-> "a", DefaultTestCase |-> 0]>>)
      [] v = 2 -> OkDoc(<<[Name |-> "b", DefaultTestCase |-> 1]>>)
      [] v = ExampleConfig -> OkDoc(DefaultEntries)
      [] v = PartialConfig -> OkDoc(<<>>)
      [] OTHER -> AbsentDoc

\* NewMockMCPServerWithWebhook after main's Sync: NewToolManager on the
\* synced config path.  Without the directory of the path neither the example
\* document can be written nor the watcher added.
StartServer ==
    /\ mpc = "serving"
    /\ gs # NoSync
    /\ pc = "start"
    /\ tools' = StartupTools(ConfigDoc(cacheConfig))
    /\ committed' = tools'
    /\ cacheConfig' = IF cacheConfig = 0 /\ configDir THEN ExampleConfig ELSE cacheConfig
    /\ file' = ConfigDoc(cacheConfig')
    /\ wpc' = IF configDir THEN "idle" ELSE "none"
    /\ pc' = StartupResult(~configDir)
    /\ UNCHANGED <<writing, wlocked, rlocks, events, wcfg, widx, rpc, rop, robs,
                   wlog, allNonEmpty, edits>>
    /\ UNCHANGED <<env, gs, mpc, remote, repo, configDir, cacheFixtures, syncResult,
                   fetched, gitURL, logged, streak, remoteChanged>>
    /\ UNCHANGED <<matchVars, valueVars, hookVars>>

\* A Sync of the running server, with what its write of the config file does
\* to the watched directory.
SyncServing ==
    /\ mpc = "serving"
    /\ gs # NoSync
    /\ pc = "running"
    /\ writing = NoDoc
    /\ HasRoom
    /\ \E o \in Sync(gs) :
          /\ Apply(o)
          /\ logged' = logged \cup o.lines
          /\ IF WroteConfig(o)
             THEN /\ file' = OkDoc(<<>>)
                  /\ writing' = ConfigDoc(o.cacheConfig)
                  /\ Emit(Event(IF file.st = "absent" THEN "Create" ELSE "Write", "config"))
             ELSE UNCHANGED <<file, writing, events>>
    /\ UNCHANGED <<pc, tools, wlocked, rlocks, wpc, wcfg, widx, rpc, rop, robs,
                   committed, wlog, allNonEmpty, edits>>
    /\ UNCHANGED <<env, gs, mpc, remote>>
    /\ UNCHANGED <<matchVars, valueVars, hookVars>>

\* A push to the remote that changes its config document only.
RemoteConfigPush ==
    /\ pc = "running"
    /\ remote' \in {Tree(c, remote.fixtures) : c \in ({0} \cup FileVersions) \ {remote.config}}
    /\ remoteChanged' = TRUE
    /\ UNCHANGED <<env, gs, mpc, repo, configDir, cacheConfig, cacheFixtures, syncResult,
                   fetched, gitURL, logged, streak>>
    /\ UNCHANGED <<regVars, matchVars, valueVars, hookVars>>

InitServing ==
    /\ RegInit(AbsentDoc)
    /\ MatchIdle
    /\ ValuesIdle
    /\ HookIdle
    /\ \E c \in {0} \cup FileVersions : SyncStart(<<"o", "/", "r">>, FALSE, Tree(c, NoFiles))
    /\ env.configPath = <<>>

NextServing ==
    \/ Main
    \/ StartServer
    \/ SyncServing
    \/ RemoteConfigPush
    \/ EnvFinish
    \/ WatchReceive
    \/ WatchLoad
    \/ WatchLock
    \/ WatchFill
    \/ WatchUnlock

SpecServing == InitServing /\ [][NextServing]_vars

(***************************************************************************)
(* The webhook.  A request is its method, its X-Hub-Signature-256 header,   *)
(* its X-GitHub-Event header and its body; a signature is the key and the   *)
(* body it was computed from (HMAC-SHA256 taken as injective in both).      *)
(* A changed path is the sequence of its segments, as a URL is.             *)
(***************************************************************************)
MaxCommits == 2

\* strings.LastIndex, 0 standing for -1
LastIndexOf(str, t) ==
    IF \E i \in 1..Len(str) : str[i] = t
    THEN CHOOSE i \in 1..Len(str) : str[i] = t /\ \A j \in (i + 1)..Len(str) : str[j] # t
    ELSE 0

Hmac(key, body) == [key |-> key, of |-> body]

ChangedPaths ==
    {<<"README.md">>,
     <<"testcases", "/", "mock_echo-test-case-2.yaml">>,
     <<"config", "/", "tools.yaml">>,
     <<"config", "/", "other.yaml">>,
     <<"tools.yaml">>}

Commit(added, modified, removed) ==
    [added |-> added, modified |-> modified, removed |-> removed]
Commits ==
    {Commit(<<>>, <<>>, <<>>)}
    \cup {Commit(<<q>>, <<>>, <<>>) : q \in ChangedPaths}
    \cup {Commit(<<>>, <<q>>, <<>>) : q \in ChangedPaths}
    \cup {Commit(<<>>, <<>>, <<q>>) : q \in ChangedPaths}

Payload(commits) == [st |-> "ok", commits |-> commits]
MalformedBody == [st |-> "malformed", commits |-> <<>>]
UnreadableBody == [st |-> "unreadable", commits |-> <<>>]
Payloads == {Payload(cs) : cs \in SeqsUpTo(Commits, MaxCommits)}

\* The files of a commit in the order the handler walks them.
FilesOf(commit) == commit.added \o commit.modified \o commit.removed

\* verifySignatureWithBody that lets a request without the header pass.
verifySignatureWithBody_AbsentPasses(secret, req) ==
    req.signature = NoSignature \/ req.signature = Hmac(secret, req.body)

verifySignatureWithBody(secret, req) ==
    IF req.signature = NoSignature THEN FALSE
    ELSE req.signature = Hmac(secret, req.body)

\* handlePushEvent's scan with the removed files left out.
shouldSync_NoRemoved(g, payload) ==
    LET cfg == g.repoConfigPath
        idx == LastIndexOf(cfg, "/")
        configDirPrefix == IF idx # 0 THEN SubSeq(cfg, 1, idx) ELSE cfg
        testcasesDirPrefix == IF HasSuffix(g.repoTestcasesPath, <<"/">>)
                              THEN g.repoTestcasesPath
                              ELSE g.repoTestcasesPath \o <<"/">>
    IN  \E c \in 1..Len(payload.commits) :
          LET files == payload.commits[c].added \o payload.commits[c].modified
          IN  \E f \in 1..Len(files) :
                \/ IF Contains(cfg, "/") THEN HasPrefix(files[f], configDirPrefix)
                                         ELSE files[f] = configDirPrefix
                \/ HasPrefix(files[f], testcasesDirPrefix)

\* handlePushEvent's scan of the commits: whether a file of the config
\* directory or of the fixtures directory was added, modified or removed.
shouldSync(g, payload) ==
    LET cfg == g.repoConfigPath
        idx == LastIndexOf(cfg, "/")
        configDirPrefix == IF idx # 0 THEN SubSeq(cfg, 1, idx) ELSE cfg
        testcasesDirPrefix == IF HasSuffix(g.repoTestcasesPath, <<"/">>)
                              THEN g.repoTestcasesPath
                              ELSE g.repoTestcasesPath \o <<"/">>
    IN  \E c \in 1..Len(payload.commits) :
          LET files == FilesOf(payload.commits[c])
          IN  \E f \in 1..Len(files) :
                \/ IF Contains(cfg, "/") THEN HasPrefix(files[f], configDirPrefix)
                                         ELSE files[f] = configDirPrefix
                \/ HasPrefix(files[f], testcasesDirPrefix)

\* The status after handlePushEvent, with a failed Sync answered as success.
PushStatus_SyncErrorIgnored(parsed, result) == IF ~parsed THEN 500 ELSE 200

\* The status HandleWebhook answers after handlePushEvent: parsed is whether
\* the payload parsed, result what Sync returned ("skipped" when not called).
PushStatus(parsed, result) ==
    IF ~parsed THEN 500
    ELSE IF result \in {"ok", "skipped"} THEN 200
    ELSE 500

\* The event-type test with every named event handled as a push.
EventKind_AllPush(event) == IF event = "" THEN "missing" ELSE "push"

\* Lines 71-89 of HandleWebhook: the X-GitHub-Event header is missing, is
\* "push", or names an event that is ignored.
EventKind(event) ==
    IF event = "" THEN "missing"
    ELSE IF event = "push" THEN "push"
    ELSE "ignored"

Answer(status, seen) ==
    /\ hres' = status
    /\ hseen' = seen
    /\ hsyncs' = 0
    /\ UNCHANGED <<repo, configDir, cacheConfig, cacheFixtures, syncResult, fetched,
                   gitURL, logged, streak, remoteChanged>>

\* HandleWebhook on the pending request.
HandleWebhook ==
    /\ mpc = "serving"
    /\ gs # NoSync
    /\ hreq # NoReq
    /\ hres = 0
    /\ IF hreq.method # "POST" THEN Answer(405, {"method"})
       ELSE IF hreq.body.st = "unreadable" THEN Answer(400, {"method", "body"})
       ELSE IF hsecret # "" /\ ~verifySignatureWithBody(hsecret, hreq)
       THEN Answer(401, {"method", "body", "signature"})
       ELSE LET seen == {"method", "body"}
                        \cup (IF hsecret # "" THEN {"signature"} ELSE {})
                        \cup {"event"}
            IN  IF EventKind(hreq.event) = "missing" THEN Answer(400, seen)
                ELSE IF EventKind(hreq.event) = "ignored" THEN Answer(200, seen)
                ELSE IF hreq.body.st # "ok"
                THEN Answer(PushStatus(FALSE, "skipped"), seen \cup {"payload"})
                ELSE IF ~shouldSync(gs, hreq.body)
                THEN Answer(PushStatus(TRUE, "skipped"), seen \cup {"payload", "paths"})
                ELSE \E o \in Sync(gs) :
                        /\ Apply(o)
                        /\ logged' = logged \cup o.lines
                        /\ hsyncs' = 1
                        /\ hres' = PushStatus(TRUE, o.result)
                        /\ hseen' = seen \cup {"payload", "paths"}
    /\ UNCHANGED <<env, gs, mpc, remote, hsecret, hreq>>
    /\ UNCHANGED <<regVars, matchVars, valueVars>>

\* The requests a sender makes: every combination of method, signature and
\* event type with a push of one fixture, and well-formed signed pushes with
\* every payload.
HookRequests(secret) ==
    LET one == Payload(<<Commit(<<>>, <<<<"testcases", "/", "mock_echo-test-case-2.yaml">>>>, <<>>)>>)
        other == Payload(<<Commit(<<<<"README.md">>>>, <<>>, <<>>)>>)
    IN  {[method |-> m, signature |-> sg, event |-> e, body |-> b] :
            m \in {"POST", "GET"},
            sg \in {NoSignature, Hmac(secret, one), Hmac("wrong", one), Hmac(secret, other)},
            e \in {"", "push", "ping"},
            b \in {one}}
        \cup {[method |-> "POST", signature |-> Hmac(secret, b), event |-> "push", body |-> b] :
                b \in Payloads \cup {MalformedBody, UnreadableBody}}

InitHook ==
    /\ RegInit(AbsentDoc)
    /\ MatchIdle
    /\ ValuesIdle
    /\ \E ps \in PathSettings, tree \in {Tree(1, [n \in {"f1"} |-> 1]), Tree(0, NoFiles)} :
          /\ SyncStart(<<"o", "/", "r">>, FALSE, tree)
          /\ env.configPath = ps[1]
          /\ env.testcasesPath = ps[2]
    /\ hsecret \in {"", "s3"}
    /\ hreq \in HookRequests(hsecret)
    /\ hres = 0
    /\ hsyncs = 0
    /\ hseen = {}

NextHook == Main \/ HandleWebhook

SpecHook == InitHook /\ [][NextHook]_vars

(***************************************************************************)
(* Registry claims, checked under Spec.                                     *)
(***************************************************************************)

\* C1: what a GetTool or GetAllTools call reads is the registry as the last
\* completed load left it: the pre-reload registry until the reload unlocks,
\* the post-reload registry after, never the cleared or half-filled map.
C1_AtomicSnapshot ==
    \A r \in Readers : rpc[r] = "read" => robs[r] = View(committed, rop[r])

\* C1 witness: a call has read the old registry while a reload that will
\* change it has parsed the new document and waits for the lock.
C1_Witness ==
    \E r \in Readers :
        /\ rpc[r] = "read"
        /\ rop[r] = "all"
        /\ wpc = "lock"
        /\ robs[r] # RegistryOf(wcfg.entries)
        /\ DOMAIN robs[r] # {}

\* C2 as claimed: while every complete document (at startup and after each
\* change) parses and defines at least one tool, no GetAllTools call returns
\* zero tools.
C2_NeverZeroTools ==
    \A r \in Readers :
        (rpc[r] = "read" /\ rop[r] = "all" /\ allNonEmpty) => DOMAIN robs[r] # {}

\* C3: a reload whose document could not be read or parsed never changes the
\* registry: after startup the registry changes only inside a load whose
\* document parsed.
C3_FailedReloadKeepsRegistry ==
    [][(pc = "running" /\ tools' # tools) => wcfg.st = "ok"]_vars

\* C3 witness: the watcher has logged a failed reload of a malformed
\* document and the registry still holds the tools it held.
C3_Witness ==
    /\ wlog = "failed"
    /\ wpc = "idle"
    /\ file.st = "malformed"
    /\ DOMAIN tools # {}
    /\ tools = committed

\* C4 as claimed: when NewToolManager returns the registry holds at least
\* one tool, whatever the document was.
C4_NeverZeroAtStartup ==
    (pc = "running" /\ edits = 0) => DOMAIN tools # {}

\* C4 amended: when NewToolManager returns the registry holds at least one
\* tool unless the document exists, parses and defines no tool.
C4_NonEmptyUnlessDocEmpty ==
    (pc = "running" /\ edits = 0 /\ file # OkDoc(<<>>)) => DOMAIN tools # {}

\* C4 witness: startup on a malformed document ended with the default set.
C4_Witness ==
    /\ pc = "running"
    /\ edits = 0
    /\ file.st = "malformed"
    /\ DOMAIN tools = {"mock_echo", "mock_calculator", "mock_delay"}

\* C5 as claimed, in the form a finite run decides: once the changes have
\* ended with a parseable document and the started watcher has received
\* every event and is idle, the registry holds exactly that document's tools.
C5_RegistryFollowsDocument ==
    (/\ pc = "running"
     /\ edits > 0
     /\ writing = NoDoc
     /\ file.st = "ok"
     /\ wpc = "idle"
     /\ events = <<>>) => tools = RegistryOf(file.entries)

(***************************************************************************)
(* Matcher claims, checked under SpecMatch.  AllKeysEqual is the match      *)
(* rule as stated: every expected key present and equal under valuesMatch.  *)
(***************************************************************************)
AllKeysEqual(expected, actual) ==
    \A k \in DOMAIN expected :
        k \in DOMAIN actual /\ valuesMatch(expected[k], actual[k]) = "true"

\* The sequence numbers in 1..100 whose fixture exists, parses and matches
\* the call's arguments.
MatchingSeqs ==
    {i \in DOMAIN testCasesDir \cap (1..TestCaseLimit) :
        /\ testCasesDir[i].st = "ok"
        /\ AllKeysEqual(testCasesDir[i].input, call.args)}

Lowest(S) == CHOOSE m \in S : \A n \in S : m <= n

\* FindMatchingTestCase has returned (a fixture or the error) for FixtureTool.
Returned == call.name = FixtureTool /\ found.kind \in {"found", "notfound"}

\* C6: when some fixture in 1..100 exists, parses and matches, the search
\* returns the one with the lowest sequence number.
C6_LowestMatchWins ==
    (Returned /\ MatchingSeqs # {}) => found = Found(Lowest(MatchingSeqs))

\* C6 witness: two fixtures match the call and the lower one was returned.
C6_Witness ==
    /\ Returned
    /\ Cardinality(MatchingSeqs) >= 2
    /\ found = Found(Lowest(MatchingSeqs))

\* C7: with no default configured, the search returns a fixture only if every
\* key of its input is present in the call with an equal value, and returns
\* the error only if no fixture in 1..100 is such; keys only in the call are
\* ignored and an empty input matches any arguments.
C7_MatchIffKeysEqual ==
    (Returned /\ call.defaultTestCase = 0) =>
        /\ found.kind = "found" =>
              /\ testCasesDir[found.seq].st = "ok"
              /\ AllKeysEqual(testCasesDir[found.seq].input, call.args)
        /\ found.kind = "notfound" => MatchingSeqs = {}

\* C7 witness: the fixture returned constrains one key and the call carries
\* that key, with a value of another numeric type, and a second key.
C7_Witness ==
    /\ Returned
    /\ call.defaultTestCase = 0
    /\ found.kind = "found"
    /\ DOMAIN testCasesDir[found.seq].input = {"x"}
    /\ DOMAIN call.args = {"x", "y"}
    /\ testCasesDir[found.seq].input["x"] # call.args["x"]

BadSeqs ==
    {i \in DOMAIN testCasesDir \cap (1..TestCaseLimit) : testCasesDir[i].st = "bad"}

\* The directory with every unparseable fixture file removed.
WithoutBad ==
    [i \in {j \in DOMAIN testCasesDir : testCasesDir[j].st # "bad"} |-> testCasesDir[i]]

\* The sequence numbers in 1..100 whose fixture in dir parses and matches.
MatchingIn(dir) ==
    {i \in DOMAIN dir \cap (1..TestCaseLimit) :
        dir[i].st = "ok" /\ AllKeysEqual(dir[i].input, call.args)}

\* What the search is to return on dir: the lowest match, else the default
\* fixture if configured and present, else the error.
ExpectedOn(dir) ==
    IF MatchingIn(dir) # {} THEN Found(Lowest(MatchingIn(dir)))
    ELSE IF call.defaultTestCase >= 1 /\ call.defaultTestCase \in DOMAIN dir
    THEN Found(call.defaultTestCase)
    ELSE NotFound

\* C11: when fixture files that exist fail to parse, the search returns what
\* it would return were those files absent: a matching fixture with a higher
\* number, else the default, else the error.
C11_UnparseableIsSkipped ==
    (Returned /\ BadSeqs # {}) => found = ExpectedOn(WithoutBad)

\* C11 witness: an unparseable fixture precedes the fixture that was returned
\* as a match.
C11_Witness ==
    /\ Returned
    /\ found.kind = "found"
    /\ found.seq \in MatchingSeqs
    /\ \E i \in BadSeqs : i < found.seq

\* C12 as claimed: whatever the fixtures and the call's arguments, nested
\* mappings included, a tools/call that reaches the search is answered with a
\* fixture or the error; no comparison faults.
C12_NeverFaults ==
    (call.name = FixtureTool /\ response.kind # "none") => response.kind = "result"

\* C13: the response is the protocol error -32601, with no fixture lookup, if
\* and only if the tool is not registered; for a registered tool whose search
\* returns the error the response is a result with the error flag set.
C13_ProtocolErrorIffUnknown ==
    (response.kind \in {"error", "result"}) =>
        /\ response.kind = "error" <=> call.name \notin DOMAIN tools
        /\ response.kind = "error" => (response = ToolNotFound /\ found = NoResult)
        /\ found = NotFound => response = NoTestCaseFound

\* C13 witness: a registered tool with fixture files, none matching and no
\* default, answered with the error-flagged result.
C13_Witness ==
    /\ call.name \in DOMAIN tools
    /\ DOMAIN testCasesDir # {}
    /\ found = NotFound
    /\ response = NoTestCaseFound

(***************************************************************************)
(* Value claims, checked under SpecValues.                                  *)
(***************************************************************************)

\* The two numbers denote the same integer.
MathEqual(v, w) == v.big = w.big /\ v.d = w.d

\* C8 as claimed: on two numeric values valuesMatch answers true exactly when
\* they are mathematically equal.
C8_MathematicalEquality ==
    (vResult # "none" /\ IsNumeric(vExpected) /\ IsNumeric(vActual)) =>
        (vResult = "true" <=> MathEqual(vExpected, vActual))

(***************************************************************************)
(* Remote sync claims, checked under SpecSync and SpecStartup.              *)
(***************************************************************************)

\* C14 as claimed: after a Sync that fetched the remote (clone or pull) and
\* returned success, the fixtures cache holds exactly the fixture files the
\* remote has, none when the remote has no fixtures sub-path any more.
C14_CacheMirrorsRemote ==
    (syncResult = "ok" /\ fetched \in {"clone", "pull"} /\ ~remoteChanged) =>
        cacheFixtures.files = remote.fixtures

\* C15 as claimed: a successful Sync that follows a successful Sync, the
\* remote unchanged in between, leaves both caches as they were.
C15_Idempotent ==
    [][streak' = 2 => (cacheConfig' = cacheConfig /\ cacheFixtures' = cacheFixtures)]_vars

\* C15 amended: a successful Sync that follows a successful Sync, the remote
\* unchanged in between and the working copy level with the remote after the
\* first, leaves both caches as they were.
C15_IdempotentWhenCurrent ==
    [][(streak' = 2 /\ repo = remote) =>
          (cacheConfig' = cacheConfig /\ cacheFixtures' = cacheFixtures)]_vars

\* C15 witness: the second of two successful Syncs in a row has run on a
\* working copy level with the remote (its pull failed, so the copy is the
\* first one's), and the caches hold a config document and fixtures.
C15_Witness ==
    /\ streak = 2
    /\ ~remoteChanged
    /\ fetched = "stale"
    /\ repo = remote
    /\ cacheConfig \in FileVersions
    /\ DOMAIN cacheFixtures.files # {}

\* C16: when the working copy existed and git pull failed, Sync returns no
\* error on that account: unless a copy step fails it returns success, with
\* the config document and the fixtures of the stale working copy in the
\* caches.
C16_PullFailureNotFatal ==
    (fetched = "stale" /\ syncResult \notin {"config", "copy"}) =>
        /\ syncResult = "ok"
        /\ repo.config # 0 => cacheConfig = repo.config
        /\ DOMAIN repo.fixtures # {} => cacheFixtures.files = repo.fixtures

\* C16 witness: the remote has moved on, the pull failed, and Sync returned
\* success with the stale document in the config cache.
C16_Witness ==
    /\ fetched = "stale"
    /\ syncResult = "ok"
    /\ ~remoteChanged
    /\ repo.config # 0
    /\ remote.config \notin {0, repo.config}
    /\ cacheConfig = repo.config

\* C17 as claimed: no line logged by startup or by Sync holds a secret of the
\* remote URL, embedded in GITHUB_REPO_URL or given apart.
C17_NoSecretInLog ==
    \A l \in logged : \A i \in 1..Len(l.text) : l.text[i] \notin Secrets

(***************************************************************************)
(* Webhook claims, checked under SpecHook.                                  *)
(***************************************************************************)

\* The request carries no signature, or one that is not the HMAC of its body
\* under the configured secret.
BadSignature ==
    hreq.signature = NoSignature \/ hreq.signature # Hmac(hsecret, hreq.body)

\* A changed path the claim counts as relevant: the config path itself when
\* it has no directory, else any path under its directory; or any path under
\* the fixtures directory.
Relevant(path) ==
    LET cfg == gs.repoConfigPath
        slash == LastIndexOf(cfg, "/")
        fixturesDir == TrimSuffix(gs.repoTestcasesPath, <<"/">>) \o <<"/">>
    IN  \/ slash = 0 /\ path = cfg
        \/ slash # 0 /\ HasPrefix(path, SubSeq(cfg, 1, slash))
        \/ HasPrefix(path, fixturesDir)

RelevantPush ==
    \E c \in 1..Len(hreq.body.commits) :
        \E l \in {hreq.body.commits[c].added, hreq.body.commits[c].modified,
                  hreq.body.commits[c].removed} :
            \E i \in 1..Len(l) : Relevant(l[i])

\* The handler has answered a push event that passed the signature check.
PushHandled ==
    /\ hres # 0
    /\ hreq.method = "POST"
    /\ hreq.body.st # "unreadable"
    /\ hsecret # "" => ~BadSignature
    /\ hreq.event = "push"

\* C18: with a secret configured, a request whose signature is absent or is
\* not the HMAC of its body never gets Sync called and never has its event
\* type or its payload looked at; a POST of it is answered 401.
C18_BadSignatureRejected ==
    (hsecret # "" /\ hres # 0 /\ BadSignature) =>
        /\ hsyncs = 0
        /\ hseen \cap {"event", "payload", "paths"} = {}
        /\ hreq.method = "POST" => hres = 401

\* C18 witness: a push with a fixture change, signed with the right secret
\* over another body, was answered 401.
C18_Witness ==
    /\ hsecret # ""
    /\ hres = 401
    /\ hreq.event = "push"
    /\ hreq.signature.key = hsecret
    /\ hreq.signature.of # hreq.body
    /\ RelevantPush

\* C19: for a push that passed the checks and whose payload parses, Sync is
\* called once when some added, modified or removed path of some commit is
\* relevant, and not at all otherwise.
C19_SyncOnceIffRelevant ==
    (PushHandled /\ hreq.body.st = "ok") =>
        hsyncs = (IF RelevantPush THEN 1 ELSE 0)

\* C19 witness: with the fixtures path "testcases", a push whose only
\* relevant change is a removed fixture in its second commit made one Sync.
C19_Witness ==
    /\ PushHandled
    /\ gs.repoTestcasesPath = <<"testcases">>
    /\ Len(hreq.body.commits) = 2
    /\ hreq.body.commits[1] = Commit(<<<<"README.md">>>>, <<>>, <<>>)
    /\ hreq.body.commits[2].removed = <<<<"testcases", "/", "mock_echo-test-case-2.yaml">>>>
    /\ hsyncs = 1

\* C20 as claimed: a push is answered with a server error exactly when the
\* Sync it triggered failed.
C20_ErrorIffSyncFailed ==
    PushHandled => (hres = 500 <=> (hsyncs = 1 /\ syncResult # "ok"))

\* C20 amended: a push is answered with a server error exactly when its
\* payload does not parse or the Sync it triggered failed, and with success
\* otherwise (no relevant change, or a Sync that succeeded).
C20_ErrorIffUnparsedOrSyncFailed ==
    PushHandled =>
        /\ hres = 500 <=> (hreq.body.st # "ok" \/ (hsyncs = 1 /\ syncResult # "ok"))
        /\ hres # 500 => hres = 200

\* C20 witness: the Sync triggered by a push failed and the answer is 500.
C20_Witness ==
    /\ PushHandled
    /\ hreq.body.st = "ok"
    /\ hsyncs = 1
    /\ syncResult # "ok"
    /\ hres = 500

\* The handler has answered a request that passed the method, body and
\* signature checks.
Admitted ==
    /\ hres # 0
    /\ hreq.method = "POST"
    /\ hreq.body.st # "unreadable"
    /\ hsecret # "" => ~BadSignature

\* C21: a request that names an event other than push is answered 200 and a
\* request without the event header is answered 400; neither calls Sync nor
\* has its payload looked at.
C21_OtherEventsIgnored ==
    (Admitted /\ hreq.event # "push") =>
        /\ hres = (IF hreq.event = "" THEN 400 ELSE 200)
        /\ hsyncs = 0
        /\ hseen \cap {"payload", "paths"} = {}
        /\ syncResult = "ok" /\ fetched = "clone"

\* C21 witness: a ping whose body lists a changed fixture was answered 200
\* without a Sync.
C21_Witness ==
    /\ Admitted
    /\ hreq.event = "ping"
    /\ RelevantPush
    /\ hres = 200
    /\ hsyncs = 0

\* C24 as claimed: no failure terminates the process; a failed Sync at
\* startup is logged or answered, and main goes on.
C24_NeverTerminates == mpc # "fatal"

(***************************************************************************)
(* Synced-server claims, checked under SpecServing.                         *)
(***************************************************************************)

\* C22 as claimed: once a Sync has succeeded and has brought the remote's
\* config document, and the write and the watcher have come to rest, the
\* registry holds exactly the tools of that document.
C22_RegistryFollowsRemote ==
    (/\ pc = "running"
     /\ syncResult = "ok"
     /\ repo.config # 0
     /\ writing = NoDoc
     /\ events = <<>>
     /\ wpc \in {"idle", "none"}) => tools = RegistryOf(ConfigDoc(repo.config).entries)

(***************************************************************************)
(* Loader claims, checked under Spec.                                       *)
(***************************************************************************)

\* The last entry of the document that carries the name.
LastOf(entries, name) ==
    entries[CHOOSE i \in 1..Len(entries) :
                /\ entries[i].Name = name
                /\ \A j \in (i + 1)..Len(entries) : entries[j].Name # name]

HoldsLast(reg, entries) ==
    /\ DOMAIN reg = {entries[i].Name : i \in 1..Len(entries)}
    /\ \A n \in DOMAIN reg : reg[n] = ToolOf(LastOf(entries, n))

\* C26: a load, at startup or by the watcher, leaves for every identifier of
\* the document exactly one descriptor, made of the last entry that has it.
C26_LastEntryWins ==
    [][/\ (pc = "start" /\ pc' = "running" /\ file.st = "ok") => HoldsLast(tools', file.entries)
       /\ (wpc = "fill" /\ wpc' = "idle") => HoldsLast(tools', wcfg.entries)]_vars

\* Reached: a reload has put both entries of a document that gives one
\* identifier twice, with different defaults, and holds the second.
C26_Witness ==
    /\ wpc = "fill"
    /\ Len(wcfg.entries) = 2
    /\ widx > 2
    /\ wcfg.entries[1].Name = wcfg.entries[2].Name
    /\ wcfg.entries[1] # wcfg.entries[2]
    /\ tools = [n \in {wcfg.entries[2].Name} |-> ToolOf(wcfg.entries[2])]

\* C27 as claimed: the registry never holds a descriptor whose identifier
\* is empty, whatever parseable document was loaded.
C27_NoEmptyIdentifier ==
    \A n \in DOMAIN tools : n # "" /\ tools[n].Name # ""

\* C28: the watcher goes on to a reload only from a Write or Rename event
\* on the config path; taking any other event off the queue leaves it idle,
\* and the registry is not touched by the taking of an event.
C28_ReloadOnlyOnConfigWrite ==
    [][/\ (wpc # "sleep" /\ wpc' = "sleep") =>
             /\ events # <<>>
             /\ Head(events).op \in {"Write", "Rename"}
             /\ Head(events).name = "config"
       /\ (wpc = "idle" /\ events # <<>> /\ events' = Tail(events)) =>
             /\ tools' = tools
             /\ (Head(events).op \notin {"Write", "Rename"} \/ Head(events).name # "config")
                   => wpc' = "idle"]_vars

\* Reached: the one event of a change (another file written, or a file
\* renamed onto the config path) has been taken and no reload was begun.
C28_Witness ==
    /\ pc = "running"
    /\ wpc = "idle"
    /\ edits = 1
    /\ events = <<>>
    /\ writing = NoDoc
    /\ wlog = "none"
    /\ tools = committed

\* C29: NewToolManager on a config document that is absent, unreadable or
\* malformed returns with exactly mock_echo, mock_calculator and mock_delay
\* in the registry.
C29_DefaultsOnFailure ==
    [][(pc = "start" /\ pc' = "running" /\ file.st \in {"absent", "unreadable", "malformed"}) =>
          /\ DOMAIN tools' = {"mock_echo", "mock_calculator", "mock_delay"}
          /\ \A n \in DOMAIN tools' : tools'[n].Name = n]_vars

\* Reached: the server runs on the defaults after an unreadable document.
C29_Witness ==
    /\ pc = "running"
    /\ edits = 0
    /\ file = UnreadableDoc
    /\ DOMAIN tools = {"mock_echo", "mock_calculator", "mock_delay"}

\* A step of the server (startup, watcher, readers), as against an edit.
ServerStep ==
    \/ <<pc, tools, wlocked, rlocks, wpc, wcfg, widx, rpc, rop, robs, committed, wlog>>'
          # <<pc, tools, wlocked, rlocks, wpc, wcfg, widx, rpc, rop, robs, committed, wlog>>
    \/ Len(events') < Len(events)

\* C30: the only write of the server to the config document is the example,
\* at startup, when no document was there; a document that exists is left
\* as it is, malformed or not.
C30_ExampleOnlyWhenAbsent ==
    [][ServerStep =>
          \/ file' = file
          \/ pc = "start" /\ file.st = "absent" /\ file' = OkDoc(DefaultEntries)]_vars

\* Reached: startup on a malformed document is over and the document is as
\* it was.
C30_Witness ==
    /\ pc = "running"
    /\ edits = 0
    /\ writing = NoDoc
    /\ file = MalformedDoc
    /\ tools = registerDefaultTools(EmptyRegistry)

\* {cacheRoot}: the cache directory of the configured repository.
CacheRoot ==
    <<"tmp", "/", "mock-mcp-github-sync", "/">> \o sanitizeRepoName(normalizeRepoURL(env.repoURL))

\* C25: whatever the sub-paths configured for the remote, the config document
\* is written to {cacheRoot}/config/tools.yaml and the fixtures to
\* {cacheRoot}/testcases, and GetConfigPath and GetTestcasesDir return those.
C25_FixedLayout ==
    \A l \in logged :
        /\ l.at \in {"Sync:100", "main:28"} =>
              l.text = CacheRoot \o <<"/", "config", "/", "tools.yaml">>
        /\ l.at \in {"Sync:111", "main:29"} =>
              l.text = CacheRoot \o <<"/", "testcases">>

\* Reached: a remote laid out otherwise (document at its root) has been synced
\* and the paths handed to the server.
C25_Witness ==
    /\ env.configPath = <<"tools.yaml">>
    /\ env.testcasesPath = <<"testcases", "/">>
    /\ cacheConfig = 1 /\ DOMAIN cacheFixtures # {}
    /\ {"Sync:100", "Sync:111", "main:28", "main:29"} \subseteq {l.at : l \in logged}

(***************************************************************************)
(* Save claims, checked under SpecSave.                                     *)
(***************************************************************************)

\* C23 as claimed: whatever a lookup loads from the file a concurrent
\* SaveTestCase is writing is the complete old fixture or the complete new
\* one, never the empty file.
C23_OldOrNew == loaded \subseteq {saving.old, saving.new}

(***************************************************************************)
(* Watcher start and shutdown claims, checked under Spec.                   *)
(***************************************************************************)

\* C31: when the watcher could not be started, NewToolManager has still
\* returned a manager, the registry is the one built at startup, and what
\* GetTool / GetAllTools read is that registry.
C31_WatcherFailureNotFatal ==
    (pc # "start" /\ wpc = "none") =>
        /\ pc = "running"
        /\ tools = committed
        /\ \A r \in Readers : rpc[r] = "read" => robs[r] = View(committed, rop[r])

\* Reached: without a watcher, and after a change of the document, a reader
\* holds the whole startup registry.
C31_Witness ==
    /\ pc = "running"
    /\ wpc = "none"
    /\ edits = 1
    /\ \E r \in Readers : rpc[r] = "read" /\ rop[r] = "all" /\ robs[r] = committed
    /\ DOMAIN committed # {}

(***************************************************************************)
(* Shutdown and concurrency claims, checked under SpecClose, SpecCall and   *)
(* SpecCopy.                                                                *)
(***************************************************************************)

\* C38 as claimed: once Close has been called the watcher task begins no
\* reload; from its settle delay it goes nowhere but to its end.
C38_NoReloadAfterClose ==
    [][(pc = "closed" /\ wpc = "sleep" /\ wpc' # "sleep") => wpc' = "stopped"]_vars

\* C39 as claimed: the matcher is run for a tool that is in the registry at
\* the second read, with the default index of the descriptor that the
\* existence check saw.
C39_SingleSnapshot ==
    [][\A r \in Readers :
          (rpc[r] = "checked" /\ rpc'[r] = "done") =>
              /\ call.name \in DOMAIN tools
              /\ call'.defaultTestCase = robs[r][call.name].DefaultTestCase]_vars

\* What a lookup of the call answers against the fixture directory dir.
Answers(dir) ==
    {ResultOf(dir, call.name, r) :
        r \in FindMatchingTestCase(dir, call.name, call.args, call.defaultTestCase)}

\* C40 as claimed: the answer of a lookup that ran while the fixtures were
\* being synced is its answer against the whole set of fixtures before the
\* Sync or against the whole set after it.
C40_PreOrPostSync ==
    (copying.st # "none" /\ response.kind # "none") =>
        response \in Answers(copying.pre) \cup Answers(copying.src)

(***************************************************************************)
(* Sync claims, checked under SpecStartup.                                  *)
(***************************************************************************)

\* C32: a Sync that began without a working copy and ended without one (git
\* clone failed) has returned an error and has left the config cache and the
\* fixtures cache as they were.
C32_CloneFailureLeavesCaches ==
    [][(mpc = "start" /\ mpc' # "start" /\ repo'.st = "none") =>
          /\ syncResult' = "clone"
          /\ gs' = NoSync
          /\ configDir' = configDir
          /\ cacheConfig' = cacheConfig
          /\ cacheFixtures' = cacheFixtures]_vars

\* Reached: the clone has failed over caches left by an earlier run.
C32_Witness ==
    /\ repo.st = "none"
    /\ syncResult = "clone"
    /\ cacheConfig = 2
    /\ cacheFixtures.exists /\ DOMAIN cacheFixtures.files = {"f1"}

\* The files of the fixtures sub-path can all be copied: the outcome of the
\* Sync is not the failure of copyDirectory.
FixturesCopied == syncResult' # "copy"

\* C33: a Sync over a working copy without the config document leaves the
\* config cache as it was and never fails for the document; unless the copy
\* of the fixtures itself fails, it returns success with the fixtures cache
\* holding the fixtures of the working copy.
C33_AbsentConfigSkipped ==
    [][(mpc # "fatal" /\ repo'.st = "tree" /\ repo'.config = 0) =>
          /\ cacheConfig' = cacheConfig
          /\ syncResult' # "config"
          /\ FixturesCopied =>
                /\ syncResult' = "ok"
                /\ DOMAIN repo'.fixtures # {} =>
                      cacheFixtures' = [exists |-> TRUE, files |-> repo'.fixtures]]_vars

\* Reached: a Sync without config document has succeeded, the config cache
\* of an earlier run is still there and the fixtures are the remote's.
C33_Witness ==
    /\ repo.st = "tree"
    /\ repo.config = 0
    /\ syncResult = "ok"
    /\ cacheConfig = 2
    /\ DOMAIN repo.fixtures = {"f1", "f2"}
    /\ cacheFixtures.files = repo.fixtures

(***************************************************************************)
(* URL claims, checked under SpecStartup.                                   *)
(***************************************************************************)

\* The credential segment of scheme://credentials@host/path: what stands
\* between "://" and the last "@" before the first "/" of the rest.
Authority(rest) ==
    IF Contains(rest, "/") THEN SubSeq(rest, 1, IndexOf(rest, "/") - 1) ELSE rest

\* The URL with its whole credential segment replaced by "***", and the URL
\* itself when it has none.
Redacted(url) ==
    LET p == IndexOf(url, "://")
        rest == From(url, p + 1)
        a == LastIndexOf(Authority(rest), "@")
    IN  IF p = 0 \/ a = 0 THEN url
        ELSE SubSeq(url, 1, p) \o <<"***", "@">> \o From(rest, a + 1)

\* C34 as claimed: the URL Sync logs is the repository URL with its whole
\* credential segment replaced by "***" and the rest kept, and the
\* repository URL itself when it has no credential segment.
C34_WholeCredentialRedacted ==
    \A l \in logged :
        l.at \in {"Sync:65", "Sync:73"} => l.text = Redacted(normalizeRepoURL(env.repoURL))

\* The URL with the configured username and token as its credential segment,
\* in place of the one it had.
WithCredentials(url) ==
    LET p == IndexOf(url, "://")
        rest == From(url, p + 1)
        a == LastIndexOf(Authority(rest), "@")
    IN  SubSeq(url, 1, p) \o <<"envuser", ":", "envtok", "@">> \o From(rest, a + 1)

\* C35 as claimed: the URL handed to git, for the clone and for the remote
\* set before a pull, is the repository URL with exactly the configured
\* username and token as credentials when both are set, and the repository
\* URL unchanged when one is missing.
C35_CredentialsCarried ==
    fetched # "none" =>
        gitURL = IF env.cred THEN WithCredentials(normalizeRepoURL(env.repoURL))
                 ELSE normalizeRepoURL(env.repoURL)

(***************************************************************************)
(* Value claims, checked under SpecValues.                                  *)
(***************************************************************************)

\* The kind of a value: every numeric type is the one kind "number".
KindOf(v) == IF IsNumeric(v) THEN "number" ELSE v.t

\* C36: two strings match iff they are the same string, two booleans iff
\* they are the same boolean, and a string, a boolean or a number does not
\* match a value of another kind.
C36_SameKindOnly ==
    vResult # "none" =>
        /\ (vExpected.t = "string" /\ vActual.t = "string") =>
              (vResult = "true" <=> vExpected.s = vActual.s)
        /\ (vExpected.t = "bool" /\ vActual.t = "bool") =>
              (vResult = "true" <=> vExpected.d = vActual.d)
        /\ (/\ KindOf(vExpected) # KindOf(vActual)
            /\ {KindOf(vExpected), KindOf(vActual)} \cap {"string", "bool", "number"} # {})
              => vResult = "false"

\* Reached: the string "5" has been compared with the number 5.
C36_Witness ==
    /\ vExpected = Str("5")
    /\ vActual = Num("float64", 5)
    /\ vResult = "false"

(***************************************************************************)
(* Streaming claims, checked under SpecStream.                              *)
(***************************************************************************)

\* C37 as claimed: when the handler of a streaming request is through, a
\* tools/call has got the response event and then the progress events 1/3,
\* 2/3, 3/3, and a request of another method the response event alone.
C37_ResponseThenThreeProgress ==
    stream.pc \in {"done", "aborted"} =>
        stream.out = IF stream.method = "tools/call"
                     THEN <<ResponseEvent, Progress(1), Progress(2), Progress(3)>>
                     ELSE <<ResponseEvent>>

====
